---------------------------- MODULE Spec2Model ----------------------------
(***************************************************************************)
(* A model of the MCS-4 emulator core (mcs4-emu):                          *)
(*   - the event scheduler            mcs4-core/src/simulator.rs           *)
(*   - the bus cycle state machine    mcs4-bus/src/cycle.rs                *)
(*   - the 4-bit data bus             mcs4-bus/src/data_bus.rs             *)
(* Each subsystem has its own specification over the shared variables; a   *)
(* specification leaves the variables of the other subsystems unchanged.   *)
(*                                                                         *)
(* Signal transition histories (Signal::history) are not part of the state *)
(* here: no scheduler, bus or cycle decision reads them.  The statistics   *)
(* counters events_processed and peak_queue_depth are likewise write-only  *)
(* and left out; stats.time_elapsed is kept.                               *)
(***************************************************************************)
EXTENDS Integers, Sequences, FiniteSets, TLC

(***************************************************************************)
(* Bounds of the model.                                                    *)
(***************************************************************************)
\* signals allocated by alloc_signal during construction
NumSignals == 2
\* gates that add_gate may register
MaxGates == 1
\* pending events the queue may hold
MaxQueue == 2
\* pending events the queue may hold where the insertion order is recorded
MaxSameTime == 4
\* largest timestamp a caller schedules
MaxTime == 2
\* cap on the zero-delay gate events applied at one timestamp
MaxDeltaCount == 3
\* the configured max_delta_cycles (SimulatorConfig)
CfgMaxDeltaCycles == 2
\* the non-zero max_time configuration that Init may pick
CfgMaxTime == 1
\* largest count passed to run_events
MaxRunEvents == 1
\* cap on CycleState.cycle_count (a u64 counter in the code)
MaxCycleCount == 3
\* drivers that add_driver may register
MaxDrivers == 3
\* width of Time in the model (u64 in the code)
TimeBits == 21
\* cap on TwoPhaseClock.cycle_count (a u64 counter in the code)
MaxClockCycles == 3

\* cap on Mcs4System.total_cycles (a u64 counter in the code)
MaxSysCycles == 6
\* the same cap when every one-byte program is run
MaxByteCycles == 2
\* nested calls on the 4004 stack
MaxCallDepth == 4
\* interrupts serviced by the 4040
MaxServices == 8
\* the same cap for the calls a debugger makes; a budgeted run may pass it
MaxBreakCycles == 2
\* largest history limit a Signal is built with
MaxHistoryLimit == 5
\* cap on the transitions a Signal records before the exploration stops
MaxRecorded == 6

(***************************************************************************)
(* SignalLevel (signal.rs)                                                 *)
(***************************************************************************)
SignalLevel == {"Low", "High", "Z", "X"}

is_defined(l) == l \in {"Low", "High"}

invert(l) ==
    CASE l = "Low" -> "High"
      [] l = "High" -> "Low"
      [] OTHER -> "X"

and(a, b) ==
    IF a = "Low" \/ b = "Low" THEN "Low"
    ELSE IF a = "High" /\ b = "High" THEN "High"
    ELSE "X"

VARIABLES
    \* ---- Simulator ----
    current_time,      \* Simulator.current_time
    events,            \* Simulator.events: the binary heap's backing array
    signals,           \* Simulator.signals: SignalId -> current level
    gates,             \* Simulator.gates
    signal_to_gates,   \* Simulator.signal_to_gates
    config,            \* Simulator.config
    stats,             \* Simulator.stats
    run,               \* the driver loop in progress (run_until / run_events)
    fifo,              \* history: the pending events in insertion order
    last_some,         \* history: the last Some(t) returned by step(), as <<t>>
    last_event,        \* history: the timestamp of the last popped event, as <<t>>
    delta_count,       \* history: zero-delay gate events applied at current_time
    \* ---- CycleState ----
    phase,
    state,
    cycle_count,
    instruction_count,
    two_cycle,
    second_cycle,
    cycle_op,          \* history: the last CycleState operation called
    \* ---- DataBus ----
    lines,             \* DataBus.lines: current level of D0..D3
    drivers,           \* DataBus.drivers
    \* ---- TwoPhaseClock ----
    clock,             \* TwoPhaseClock: config, phi1, phi2, phase_time, cycle_count
    overflow_checks,   \* the build: TRUE when integer overflow panics, FALSE when it wraps
    clock_edge,        \* history: the ClockEdge the last tick() returned
    \* ---- Mcs4System ----
    sys,               \* Mcs4System: cpu, rom, ram, bus, control, cycle,
                       \* total_cycles, breakpoints
    sys_op,            \* history: the last Mcs4System operation called
    sys_call,          \* history: the arguments of the last load_rom_at or
                       \* run_until_breakpoint and what it returned, as <<r>>
    \* ---- the parts of the 4004, called directly ----
    cpu4004,           \* I4004: alu, registers, decoder, ...
    cpu4004_op,        \* history: the last operation called and its argument
    alu_before,        \* history: the Alu before the last ALU operation
    call_trail,        \* history: the program counters of the calls not yet
                       \* returned from, oldest first
    \* ---- the parts of the 4040, called directly ----
    cpu4040,           \* I4040: regs, acc, carry, pc, stack, intr, halted
    cpu4040_op,        \* history: the last operation called and what it returned
    pushed,            \* history: the addresses pushed and not yet popped
    bank_view,         \* history: the nibble last written to each logical
                       \* register, per bank for R0..R7
    \* ---- a Signal, called directly ----
    signal             \* Signal: current, history, max_history

simVars == <<current_time, events, signals, gates, signal_to_gates, config,
             stats, run, fifo, last_some, last_event, delta_count>>
cycleVars == <<phase, state, cycle_count, instruction_count, two_cycle,
               second_cycle, cycle_op>>
busVars == <<lines, drivers>>
clockVars == <<clock, overflow_checks, clock_edge>>
sysVars == <<sys, sys_op, sys_call>>
cpu4004Vars == <<cpu4004, cpu4004_op, alu_before, call_trail>>
cpu4040Vars == <<cpu4040, cpu4040_op, pushed, bank_view>>
signalVars == <<signal>>
partVars == <<cpu4004Vars, cpu4040Vars, signalVars>>
vars == <<simVars, cycleVars, busVars, clockVars, sysVars, partVars>>

(***************************************************************************)
(* Simulator (simulator.rs)                                                *)
(***************************************************************************)
Signals == 0 .. NumSignals - 1

\* Option<Time>: <<>> is None, <<t>> is Some(t)
None == <<>>
Some(t) == <<t>>

Stimulus == [kind |-> "Stimulus", id |-> 0]
GateSource(gate_id) == [kind |-> "Gate", id |-> gate_id]

Event(time, target, value, source) ==
    [time |-> time, target |-> target, value |-> value, source |-> source]

\* Gate descriptors; delay is a public field of every gate struct
Inverter(input, output, delay) ==
    [type |-> "Inv", inputs |-> <<input>>, output |-> output, delay |-> delay]

Nand2(a, b, output, delay) ==
    [type |-> "Nand2", inputs |-> <<a, b>>, output |-> output, delay |-> delay]

\* The gates a caller may register: an inverter, a NAND wired as an inverter
\* (both inputs tied), a zero-delay inverter fed back on itself, and an
\* inverter closing a positive-delay ring with the first one.
GateCatalog ==
    { Inverter(0, 1, 1), Nand2(0, 0, 1, 1), Inverter(0, 0, 0), Inverter(1, 0, 1) }

evaluate(gate, inputs) ==
    CASE gate.type = "Inv" -> invert(inputs[1])
      [] gate.type = "Nand2" -> invert(and(inputs[1], inputs[2]))

\* impl Ord for Event: by time alone
EventLeByTimeDescending(a, b) == a.time >= b.time

EventLe(a, b) == a.time <= b.time

\* std::cmp::Reverse<Event>
ReverseLe(a, b) == EventLe(b, a)

Swap(data, i, j) == [data EXCEPT ![i] = data[j], ![j] = data[i]]

\* BinaryHeap::sift_up on the 1-based array: the element at pos climbs while
\* it is greater than its parent
RECURSIVE sift_up(_, _, _)
sift_up(data, start, pos) ==
    IF pos > start /\ ~ReverseLe(data[pos], data[pos \div 2])
    THEN sift_up(Swap(data, pos, pos \div 2), start, pos \div 2)
    ELSE data

\* BinaryHeap::sift_down_to_bottom: the hole at pos descends to a leaf along
\* the greater child (the right one on a tie), then the element sifts up
RECURSIVE sift_down_hole(_, _)
sift_down_hole(data, pos) ==
    LET end == Len(data)
        child == 2 * pos
    IN IF child < end
       THEN LET c == IF ReverseLe(data[child], data[child + 1])
                     THEN child + 1 ELSE child
            IN sift_down_hole(Swap(data, pos, c), c)
       ELSE IF child = end
       THEN [data |-> Swap(data, pos, child), pos |-> child]
       ELSE [data |-> data, pos |-> pos]

sift_down_to_bottom(data, pos) ==
    LET r == sift_down_hole(data, pos)
    IN sift_up(r.data, pos, r.pos)

\* BinaryHeap::push
Push(data, item) == sift_up(Append(data, item), 1, Len(data) + 1)

\* BinaryHeap::pop: the array left once the root has been taken
PopRest(data) ==
    IF Len(data) = 1 THEN <<>>
    ELSE sift_down_to_bottom(
             [SubSeq(data, 1, Len(data) - 1) EXCEPT ![1] = data[Len(data)]], 1)

RECURSIVE PushAll(_, _)
PushAll(data, items) ==
    IF items = <<>> THEN data
    ELSE PushAll(Push(data, Head(items)), Tail(items))

get_signal(sig, id) == IF id \in DOMAIN sig THEN sig[id] ELSE "X"

\* evaluate_gate: the events it schedules (none or one)
evaluate_gate(gate_id, sig, now) ==
    LET gate == gates[gate_id + 1]
        inputs == [k \in 1 .. Len(gate.inputs) |-> get_signal(sig, gate.inputs[k])]
        new_output == evaluate(gate, inputs)
        current_output == get_signal(sig, gate.output)
    IN IF new_output # current_output
       THEN << Event(now + gate.delay, gate.output, new_output, GateSource(gate_id)) >>
       ELSE << >>

RECURSIVE evaluate_dependents(_, _, _)
evaluate_dependents(dependent_gates, sig, now) ==
    IF dependent_gates = <<>> THEN <<>>
    ELSE evaluate_gate(Head(dependent_gates), sig, now)
         \o evaluate_dependents(Tail(dependent_gates), sig, now)

\* apply_event: the signal levels after the event and the events scheduled
apply_event(sig, event, now) ==
    IF event.target \notin DOMAIN sig
    THEN [signals |-> sig, scheduled |-> <<>>]
    ELSE IF sig[event.target] = event.value
    THEN [signals |-> sig, scheduled |-> <<>>]
    ELSE LET updated == [sig EXCEPT ![event.target] = event.value]
         IN [signals |-> updated,
             scheduled |-> evaluate_dependents(signal_to_gates[event.target],
                                               updated, now)]

\* add_gate: the gate id is pushed under every entry of inputs()
RECURSIVE index_inputs(_, _, _)
index_inputs(index, inputs, gate_id) ==
    IF inputs = <<>> THEN index
    ELSE index_inputs([index EXCEPT ![Head(inputs)] = Append(@, gate_id)],
                      Tail(inputs), gate_id)

RECURSIVE RemoveFirst(_, _)
RemoveFirst(seq, x) ==
    IF seq = <<>> THEN <<>>
    ELSE IF Head(seq) = x THEN Tail(seq)
    ELSE <<Head(seq)>> \o RemoveFirst(Tail(seq), x)

Idle == [kind |-> "idle", arg |-> 0]

SimulatorStatsDefault == [time_elapsed |-> 0]

\* Simulator::with_config, then alloc_signal for every signal
InitSim ==
    /\ current_time = 0
    /\ events = <<>>
    /\ signals = [s \in Signals |-> "Low"]
    /\ gates = <<>>
    /\ signal_to_gates = [s \in Signals |-> <<>>]
    /\ config \in { [max_time |-> m, max_delta_cycles |-> CfgMaxDeltaCycles] :
                    m \in {0, CfgMaxTime} }
    /\ stats = SimulatorStatsDefault
    /\ run = Idle
    /\ fifo = <<>>
    /\ last_some = None
    /\ last_event = None
    /\ delta_count = 0

\* the acyclic netlists of C36, one gate from signal 0 to signal 1: an
\* inverter whose delay is two time units, and a NAND with its inputs tied
CombNetlists == { <<Inverter(0, 1, 2)>>, <<Nand2(0, 0, 1, 1)>> }

\* Simulator::new, alloc_signal("IN", Low), alloc_signal("OUT", High) and
\* add_gate: the output starts at the level the gate computes from the input
InitSimComb ==
    /\ current_time = 0
    /\ events = <<>>
    /\ signals = [s \in Signals |-> IF s = 0 THEN "Low" ELSE "High"]
    /\ gates \in CombNetlists
    /\ signal_to_gates = index_inputs([s \in Signals |-> <<>>], gates[1].inputs, 0)
    /\ config = [max_time |-> 0, max_delta_cycles |-> CfgMaxDeltaCycles]
    /\ stats = SimulatorStatsDefault
    /\ run = Idle
    /\ fifo = <<>>
    /\ last_some = None
    /\ last_event = None
    /\ delta_count = 0

AddGate(gate) ==
    /\ run = Idle
    /\ gates' = Append(gates, gate)
    /\ signal_to_gates' = index_inputs(signal_to_gates, gate.inputs, Len(gates))
    /\ UNCHANGED <<current_time, events, signals, config, stats, run,
                   last_some, last_event, delta_count>>

\* schedule(): no check of time against current_time
schedule(time, target, value, source) ==
    /\ events' = Push(events, Event(time, target, value, source))
    /\ UNCHANGED <<current_time, signals, gates, signal_to_gates, config, stats,
                   run, last_some, last_event, delta_count>>

\* a caller that keeps to time >= current_time
Schedule(time, target, value) ==
    /\ run = Idle
    /\ time >= current_time
    /\ schedule(time, target, value, Stimulus)

\* a caller that schedules in the past
SchedulePast(time, target, value) ==
    /\ run = Idle
    /\ time < current_time
    /\ schedule(time, target, value, Stimulus)

ScheduleDelta(delay, target, value) ==
    /\ run = Idle
    /\ schedule(current_time + delay, target, value, Stimulus)

\* step() exceeds max_time: tested after current_time has been assigned
ExceedsMaxTime(now) == config.max_time > 0 /\ now > config.max_time

\* the value step() returns from the current state
StepReturn ==
    IF events = <<>> THEN None
    ELSE IF ExceedsMaxTime(events[1].time) THEN None
    ELSE Some(events[1].time)

\* the events step() schedules from the current state, in order
StepScheduled ==
    IF events = <<>> THEN <<>>
    ELSE IF ExceedsMaxTime(events[1].time) THEN <<>>
    ELSE apply_event(signals, events[1], events[1].time).scheduled

\* a delta cycle: an event that a zero-delay gate scheduled
IsDeltaEvent(event) ==
    /\ event.source.kind = "Gate"
    /\ gates[event.source.id + 1].delay = 0

\* step() on a non-empty queue
DoStep ==
    LET event == events[1]
        now == event.time
        over == ExceedsMaxTime(now)
    IN /\ current_time' = now
       /\ stats' = [time_elapsed |-> now]
       /\ signals' = IF over THEN signals
                     ELSE apply_event(signals, event, now).signals
       /\ events' = PushAll(PopRest(events), StepScheduled)
       /\ last_event' = Some(now)
       /\ last_some' = IF over THEN last_some ELSE Some(now)
       /\ delta_count' = IF now # current_time THEN 0
                         ELSE IF IsDeltaEvent(event) THEN delta_count + 1
                         ELSE delta_count
       /\ UNCHANGED <<gates, signal_to_gates, config>>

\* step() on an empty queue returns None and changes nothing
StepOrNone ==
    IF events = <<>>
    THEN UNCHANGED <<current_time, events, signals, gates, signal_to_gates,
                     config, stats, last_some, last_event, delta_count>>
    ELSE DoStep

Step ==
    /\ run = Idle
    /\ StepOrNone
    /\ UNCHANGED run

\* run_until(end_time): while let Some(time) = step() { if time >= end { break } }
RunUntil(end_time) ==
    /\ run = Idle
    /\ run' = [kind |-> "run_until", arg |-> end_time]
    /\ UNCHANGED <<current_time, events, signals, gates, signal_to_gates,
                   config, stats, last_some, last_event, delta_count>>

RunUntilIteration ==
    /\ run.kind = "run_until"
    /\ StepOrNone
    /\ run' = IF StepReturn = None \/ StepReturn[1] >= run.arg THEN Idle ELSE run

\* run_events(count): for _ in 0..count { if step().is_none() { break } }
RunEvents(count) ==
    /\ run = Idle
    /\ run' = [kind |-> "run_events", arg |-> count]
    /\ UNCHANGED <<current_time, events, signals, gates, signal_to_gates,
                   config, stats, last_some, last_event, delta_count>>

RunEventsIteration ==
    /\ run.kind = "run_events"
    /\ StepOrNone
    /\ run' = IF StepReturn = None \/ run.arg = 1 THEN Idle
              ELSE [run EXCEPT !.arg = @ - 1]

\* reset(): the signals keep their current level, only their history is cleared
Reset ==
    /\ run = Idle
    /\ current_time' = 0
    /\ events' = <<>>
    /\ stats' = SimulatorStatsDefault
    /\ last_some' = None
    /\ last_event' = None
    /\ delta_count' = 0
    /\ UNCHANGED <<signals, gates, signal_to_gates, config, run>>

StimulusLevels == {"Low", "High"}

\* the signal that callers drive: the netlist's input
StimulusTargets == {0}

\* the bounds of the explored scheduler states
SimWithinBounds ==
    /\ Len(gates') <= MaxGates
    /\ Len(events') <= MaxQueue
    /\ \A k \in 1 .. Len(events') : events'[k].time <= MaxTime
    /\ delta_count' <= MaxDeltaCount

\* the insertion order of the pending events, where a specification records it
FifoAfterSchedule(time, target, value) ==
    fifo' = Append(fifo, Event(time, target, value, Stimulus))

FifoAfterStep ==
    fifo' = IF events = <<>> THEN fifo
            ELSE RemoveFirst(fifo, events[1]) \o StepScheduled

(***************************************************************************)
(* BusCycle, MachineState and CycleState (cycle.rs)                        *)
(***************************************************************************)
BusCycle == {"A1", "A2", "A3", "M1", "M2", "X1", "X2", "X3"}

MachineState == {"Fetch1", "Fetch2", "Execute", "Halted", "InterruptAck"}

\* BusCycle::next
BusCycleNextSkipsM2(p) ==
    CASE p = "A1" -> "A2"
      [] p = "A2" -> "A3"
      [] p = "A3" -> "M1"
      [] p = "M1" -> "X1"
      [] p = "M2" -> "X1"
      [] p = "X1" -> "X2"
      [] p = "X2" -> "X3"
      [] p = "X3" -> "A1"

BusCycleNext(p) ==
    CASE p = "A1" -> "A2"
      [] p = "A2" -> "A3"
      [] p = "A3" -> "M1"
      [] p = "M1" -> "M2"
      [] p = "M2" -> "X1"
      [] p = "X1" -> "X2"
      [] p = "X2" -> "X3"
      [] p = "X3" -> "A1"

\* CycleState::advance, the match on self.state taken when prev_phase is X3;
\* m is the record of the fields the match reads and writes
UpdateMachineStateCountsExecute(m) ==
    CASE m.state = "Fetch1" ->
             IF m.two_cycle
             THEN [m EXCEPT !.state = "Fetch2", !.second_cycle = TRUE]
             ELSE [m EXCEPT !.instruction_count = @ + 1, !.two_cycle = FALSE]
      [] m.state = "Fetch2" ->
             [m EXCEPT !.state = "Fetch1", !.instruction_count = @ + 1,
                       !.two_cycle = FALSE, !.second_cycle = FALSE]
      [] m.state = "Execute" ->
             [m EXCEPT !.state = "Fetch1", !.instruction_count = @ + 1]
      [] OTHER -> m

UpdateMachineState(m) ==
    CASE m.state = "Fetch1" ->
             IF m.two_cycle
             THEN [m EXCEPT !.state = "Fetch2", !.second_cycle = TRUE]
             ELSE [m EXCEPT !.instruction_count = @ + 1, !.two_cycle = FALSE]
      [] m.state = "Fetch2" ->
             [m EXCEPT !.state = "Fetch1", !.instruction_count = @ + 1,
                       !.two_cycle = FALSE, !.second_cycle = FALSE]
      [] m.state = "Execute" ->
             [m EXCEPT !.state = "Fetch1"]
      [] m.state \in {"Halted", "InterruptAck"} -> m

\* CycleState::new
InitCycle ==
    /\ phase = "A1"
    /\ state = "Fetch1"
    /\ cycle_count = 0
    /\ instruction_count = 0
    /\ two_cycle = FALSE
    /\ second_cycle = FALSE
    /\ cycle_op = "new"

\* CycleState::advance
Advance ==
    /\ cycle_count < MaxCycleCount
    /\ cycle_op' = "advance"
    /\ phase' = BusCycleNext(phase)
    /\ IF phase = "X3"
       THEN LET m == UpdateMachineState(
                         [state |-> state, instruction_count |-> instruction_count,
                          two_cycle |-> two_cycle, second_cycle |-> second_cycle])
            IN /\ cycle_count' = cycle_count + 1
               /\ state' = m.state
               /\ instruction_count' = m.instruction_count
               /\ two_cycle' = m.two_cycle
               /\ second_cycle' = m.second_cycle
       ELSE UNCHANGED <<cycle_count, state, instruction_count, two_cycle,
                        second_cycle>>

\* CycleState::set_two_cycle
SetTwoCycle ==
    /\ two_cycle' = TRUE
    /\ cycle_op' = "set_two_cycle"
    /\ UNCHANGED <<phase, state, cycle_count, instruction_count, second_cycle>>

\* CycleState::halt
Halt ==
    /\ state' = "Halted"
    /\ cycle_op' = "halt"
    /\ UNCHANGED <<phase, cycle_count, instruction_count, two_cycle, second_cycle>>

\* CycleState::resume
Resume ==
    /\ state' = IF state = "Halted" THEN "Fetch1" ELSE state
    /\ cycle_op' = "resume"
    /\ UNCHANGED <<phase, cycle_count, instruction_count, two_cycle, second_cycle>>

\* CycleState::interrupt_ack
InterruptAck ==
    /\ state' = "InterruptAck"
    /\ cycle_op' = "interrupt_ack"
    /\ UNCHANGED <<phase, cycle_count, instruction_count, two_cycle, second_cycle>>

\* CycleState::reset
CycleReset ==
    /\ phase' = "A1"
    /\ state' = "Fetch1"
    /\ cycle_count' = 0
    /\ instruction_count' = 0
    /\ two_cycle' = FALSE
    /\ second_cycle' = FALSE
    /\ cycle_op' = "reset"

\* a write to the public field state: the only way into Execute
WriteState(s) ==
    /\ state' = s
    /\ cycle_op' = "write_state"
    /\ UNCHANGED <<phase, cycle_count, instruction_count, two_cycle, second_cycle>>

\* a write to the public flags, as I4004::phase_x3 does
WriteFlags(tc, sc) ==
    /\ two_cycle' = tc
    /\ second_cycle' = sc
    /\ cycle_op' = "write_flags"
    /\ UNCHANGED <<phase, state, cycle_count, instruction_count>>

(***************************************************************************)
(* DataBus (data_bus.rs)                                                   *)
(***************************************************************************)
Lines == 0 .. 3

\* the u8 values passed to drive(); 26 = 0x1A has bits above the nibble
DriveValues == {0, 5, 10, 15, 26}

Bit(value, i) == (value \div (2 ^ i)) % 2

\* value & 0x0F
LowNibble(value) == value % 16

AllLines(level) == [i \in Lines |-> level]

\* DataBus::resolve: the levels of D0..D3 for a list of drivers
ResolveFirstActiveOnly(drv) ==
    LET active_drivers == SelectSeq(drv, LAMBDA d : d.active)
    IN IF active_drivers = <<>> THEN AllLines("Z")
       ELSE [i \in Lines |->
                IF Bit(active_drivers[1].value, i) = 1 THEN "High" ELSE "Low"]

Resolve(drv) ==
    LET active_drivers == SelectSeq(drv, LAMBDA d : d.active)
    IN IF active_drivers = <<>> THEN AllLines("Z")
       ELSE IF /\ Len(active_drivers) > 1
               /\ \E k \in 1 .. Len(active_drivers) :
                      active_drivers[k].value # active_drivers[1].value
       THEN AllLines("X")
       ELSE [i \in Lines |->
                IF Bit(active_drivers[1].value, i) = 1 THEN "High" ELSE "Low"]

\* DataBus::read
Read == LET RECURSIVE sum(_)
            sum(i) == IF i > 3 THEN 0
                      ELSE (IF lines[i] = "High" THEN 2 ^ i ELSE 0) + sum(i + 1)
        IN sum(0)

\* DataBus::is_valid
is_valid == \A i \in Lines : is_defined(lines[i])

\* DataBus::has_contention
has_contention == \E i \in Lines : lines[i] = "X"

\* DataBus::new
InitBus ==
    /\ lines = AllLines("Z")
    /\ drivers = <<>>

\* DataBus::add_driver
AddDriver ==
    /\ Len(drivers) < MaxDrivers
    /\ drivers' = Append(drivers, [active |-> FALSE, value |-> 0])
    /\ UNCHANGED lines

\* DataBus::drive; driver_id is 0-based and may name no driver
Drive(driver_id, value) ==
    /\ drivers' = IF driver_id < Len(drivers)
                  THEN [drivers EXCEPT ![driver_id + 1] =
                            [active |-> TRUE, value |-> LowNibble(value)]]
                  ELSE drivers
    /\ lines' = Resolve(drivers')

\* DataBus::release
Release(driver_id) ==
    /\ drivers' = IF driver_id < Len(drivers)
                  THEN [drivers EXCEPT ![driver_id + 1].active = FALSE]
                  ELSE drivers
    /\ lines' = Resolve(drivers')

(***************************************************************************)
(* Two-phase clock, step mode (clock.rs)                                   *)
(***************************************************************************)
\* Time is u64; the model keeps the wrap-around, at 2^TimeBits
TimeModulus == 2 ^ TimeBits

\* ClockConfig::default: T0PW_MIN, T0D1_MIN, T0PW_MIN, T0D2_MIN (timing.rs);
\* tick() reads neither period nor the rise and fall times
ClockConfigDefault ==
    [phi1_width |-> 380 * 1000, phi1_to_phi2_delay |-> 400 * 1000,
     phi2_width |-> 380 * 1000, phi2_to_phi1_delay |-> 150 * 1000]

\* the widths and delays a caller may put in the public fields of ClockConfig
ClockTimes == {0, 1, 2, TimeModulus - 2, TimeModulus - 1}

ClockConfigs ==
    {ClockConfigDefault} \cup
    [phi1_width : ClockTimes, phi1_to_phi2_delay : ClockTimes,
     phi2_width : ClockTimes, phi2_to_phi1_delay : {1}]

\* ClockConfig::for_frequency(hz) for hz = ghz * 10^9: the period in ps is
\* 10^12 / hz = 1000 / ghz, and tick() reads the two widths and the first delay
for_frequency(ghz) ==
    LET period == 1000 \div ghz
    IN [phi1_width |-> period \div 3, phi1_to_phi2_delay |-> period \div 6,
        phi2_width |-> period \div 3, phi2_to_phi1_delay |-> period \div 6]

\* the frequencies, in GHz, a caller passes to for_frequency
Frequencies == {1, 100, 200, 400, 1000}

\* the configurations of step mode: the default, those of for_frequency, and
\* every choice of short widths and delays
StepConfigs ==
    {ClockConfigDefault} \cup {for_frequency(ghz) : ghz \in Frequencies} \cup
    [phi1_width : 0 .. 2, phi1_to_phi2_delay : 0 .. 2,
     phi2_width : 0 .. 2, phi2_to_phi1_delay : {1}]

ClockEdge == {"None", "Phi1Rising", "Phi1Falling", "Phi2Rising", "Phi2Falling"}

\* a + b on Time: the sum, and whether it left the range of the type
TimeAdd(a, b) ==
    [value |-> (a + b) % TimeModulus, overflow |-> a + b >= TimeModulus]

\* TwoPhaseClockTwoPhaseClock::new
ClockNew(cfg) ==
    [config |-> cfg, phi1 |-> "Low", phi2 |-> "Low", phase_time |-> 0,
     cycle_count |-> 0, panicked |-> FALSE]

\* the outcome of an addition that tick() stores in phase_time: a panic in a
\* build with overflow checks, the wrapped sum otherwise
AdvancePhaseTime(c, width, checks, edge) ==
    LET sum == TimeAdd(c.phase_time, width)
    IN IF sum.overflow /\ checks
       THEN [clock |-> [c EXCEPT !.panicked = TRUE], edge |-> "Panic"]
       ELSE [clock |-> [c EXCEPT !.phase_time = sum.value], edge |-> edge]

\* tick() counting the cycle on the rising edge of PHI2
TickResultCountsOnPhi2Rising(c, checks) ==
    LET t == c.phase_time
        cfg == c.config
        phi2_start == TimeAdd(cfg.phi1_width, cfg.phi1_to_phi2_delay)
    IN IF t = 0
       THEN AdvancePhaseTime([c EXCEPT !.phi1 = "High"], cfg.phi1_width,
                             checks, "Phi1Rising")
       ELSE IF t = cfg.phi1_width
       THEN AdvancePhaseTime([c EXCEPT !.phi1 = "Low"], cfg.phi1_to_phi2_delay,
                             checks, "Phi1Falling")
       ELSE IF t = phi2_start.value
       THEN AdvancePhaseTime([c EXCEPT !.phi2 = "High", !.cycle_count = @ + 1],
                             cfg.phi2_width, checks, "Phi2Rising")
       ELSE [clock |-> [c EXCEPT !.phi2 = "Low", !.phase_time = 0],
             edge |-> "Phi2Falling"]

\* tick(): the clock after the call and the edge returned
TickResult(c, checks) ==
    LET t == c.phase_time
        cfg == c.config
        phi2_start == TimeAdd(cfg.phi1_width, cfg.phi1_to_phi2_delay)
        phi2_end == TimeAdd(phi2_start.value, cfg.phi2_width)
        panic == [clock |-> [c EXCEPT !.panicked = TRUE], edge |-> "Panic"]
    IN IF t = 0
       THEN AdvancePhaseTime([c EXCEPT !.phi1 = "High"], cfg.phi1_width,
                             checks, "Phi1Rising")
       ELSE IF t = cfg.phi1_width
       THEN AdvancePhaseTime([c EXCEPT !.phi1 = "Low"], cfg.phi1_to_phi2_delay,
                             checks, "Phi1Falling")
       ELSE IF phi2_start.overflow /\ checks THEN panic
       ELSE IF t = phi2_start.value
       THEN AdvancePhaseTime([c EXCEPT !.phi2 = "High"], cfg.phi2_width,
                             checks, "Phi2Rising")
       ELSE IF phi2_end.overflow /\ checks THEN panic
       ELSE IF t = phi2_end.value
       THEN [clock |-> [c EXCEPT !.phi2 = "Low", !.phase_time = 0,
                                 !.cycle_count = @ + 1],
             edge |-> "Phi2Falling"]
       ELSE [clock |-> c, edge |-> "None"]

phi1_high == clock.phi1 = "High"

phi2_high == clock.phi2 = "High"

\* the clock of a system that is never ticked
ClockFresh ==
    /\ clock = ClockNew(ClockConfigDefault)
    /\ overflow_checks = FALSE
    /\ clock_edge = "Start"

InitClock ==
    /\ clock \in {ClockNew(cfg) : cfg \in ClockConfigs}
    /\ overflow_checks \in BOOLEAN
    /\ clock_edge = "Start"

\* TwoPhaseClockTwoPhaseClock::new(config) for the configurations of step mode
InitClockStep ==
    /\ clock \in {ClockNew(cfg) : cfg \in StepConfigs}
    /\ overflow_checks \in BOOLEAN
    /\ clock_edge = "Start"

\* tick(current_time); a panicked thread makes no further call
Tick ==
    /\ ~clock.panicked
    /\ clock.cycle_count < MaxClockCycles
    /\ clock' = TickResult(clock, overflow_checks).clock
    /\ clock_edge' = TickResult(clock, overflow_checks).edge
    /\ UNCHANGED overflow_checks

\* TwoPhaseClockTwoPhaseClock::reset
ClockReset ==
    /\ ~clock.panicked
    /\ clock' = [clock EXCEPT !.phi1 = "Low", !.phi2 = "Low",
                              !.phase_time = 0, !.cycle_count = 0]
    /\ clock_edge' = "Start"
    /\ UNCHANGED overflow_checks

(***************************************************************************)
(* Mcs4System: the bus and the control signals as the chips use them       *)
(***************************************************************************)
\* the element of a one-element set; {e(v) : v \in {w}} computes w once
Only(S) == CHOOSE v \in S : TRUE

\* the level a chip puts on line i for a nibble
LineLevel(value, i) == IF Bit(value, i) = 1 THEN "High" ELSE "Low"

\* DataBus::read on given line levels: a line counts when it is High
read(l) ==
    (IF l[0] = "High" THEN 1 ELSE 0) + (IF l[1] = "High" THEN 2 ELSE 0)
    + (IF l[2] = "High" THEN 4 ELSE 0) + (IF l[3] = "High" THEN 8 ELSE 0)

\* DataBus::write, called by the chips: the nibble is placed on the bus
write(l, value) == [i \in Lines |-> LineLevel(LowNibble(value), i)]

\* ControlSignals::mcs4 (the signals of the 4040 are absent)
ControlSignalsMcs4 ==
    [sync |-> "Low", cm_rom |-> AllLines("Low"), cm_ram |-> AllLines("Low")]

assert_sync(ctrl) == [ctrl EXCEPT !.sync = "High"]

deassert_sync(ctrl) == [ctrl EXCEPT !.sync = "Low"]

select_rom(ctrl, bank) ==
    [ctrl EXCEPT !.cm_rom = [i \in Lines |-> LineLevel(LowNibble(bank), i)]]

\* ControlSignals::cm_rom() and cm_ram(): the select lines as a number
cm_rom(ctrl) == read(ctrl.cm_rom)

cm_ram(ctrl) == read(ctrl.cm_ram)

\* ControlSignals::selected_rom().is_some()
selected_rom_is_some(ctrl) == \E i \in Lines : ctrl.cm_rom[i] = "High"

is_io_write(ctrl) == selected_rom_is_some(ctrl)

is_io_read(ctrl) == selected_rom_is_some(ctrl)

\* CycleState::new and CycleState::advance on a CycleState value
CycleStateNew ==
    [phase |-> "A1", state |-> "Fetch1", cycle_count |-> 0,
     instruction_count |-> 0, two_cycle |-> FALSE, second_cycle |-> FALSE]

advance(c) ==
    IF c.phase = "X3"
    THEN LET m == UpdateMachineState(
                      [state |-> c.state,
                       instruction_count |-> c.instruction_count,
                       two_cycle |-> c.two_cycle,
                       second_cycle |-> c.second_cycle])
         IN [phase |-> BusCycleNext(c.phase), state |-> m.state,
             cycle_count |-> c.cycle_count + 1,
             instruction_count |-> m.instruction_count,
             two_cycle |-> m.two_cycle, second_cycle |-> m.second_cycle]
    ELSE [c EXCEPT !.phase = BusCycleNext(c.phase)]

(***************************************************************************)
(* 4004 ALU (i4004/alu.rs)                                                 *)
(***************************************************************************)
AluNew == [acc |-> 0, carry |-> FALSE, temp |-> 0]

CarryBit(alu) == IF alu.carry THEN 1 ELSE 0

accumulator(alu) == alu.acc % 16

set_accumulator(alu, value) == [alu EXCEPT !.acc = value % 16]

set_carry(alu, c) == [alu EXCEPT !.carry = c]

clb(alu) == [alu EXCEPT !.acc = 0, !.carry = FALSE]

\* (!acc) & 0x0F
cma(alu) == [alu EXCEPT !.acc = 15 - (alu.acc % 16)]

cmc(alu) == [alu EXCEPT !.carry = ~alu.carry]

stc(alu) == [alu EXCEPT !.carry = TRUE]

\* u8 wrapping_add(1)
iac(alu) ==
    LET result == (alu.acc + 1) % 256
    IN [alu EXCEPT !.carry = result > 15, !.acc = result % 16]

\* u8 wrapping_sub(1)
dac(alu) ==
    LET result == (alu.acc + 255) % 256
    IN [alu EXCEPT !.carry = alu.acc # 0, !.acc = result % 16]

ral(alu) ==
    [alu EXCEPT !.carry = (alu.acc \div 8) % 2 = 1,
                !.acc = ((alu.acc * 2) + CarryBit(alu)) % 16]

rar(alu) ==
    [alu EXCEPT !.carry = alu.acc % 2 = 1,
                !.acc = ((alu.acc \div 2) % 8)
                        + 8 * (IF alu.carry \/ (alu.acc \div 16) % 2 = 1
                               THEN 1 ELSE 0)]

\* add that leaves the carry flag out of the sum
addWithoutCarryIn(alu, value) ==
    LET result == alu.acc + value
    IN [alu EXCEPT !.carry = result > 15, !.acc = result % 16]

add(alu, value) ==
    LET result == alu.acc + value + CarryBit(alu)
    IN [alu EXCEPT !.carry = result > 15, !.acc = result % 16]

sub(alu, value) ==
    LET complement == 15 - (value % 16)
        result == alu.acc + complement + CarryBit(alu)
    IN [alu EXCEPT !.carry = result > 15, !.acc = result % 16]

load(alu, value) == [alu EXCEPT !.acc = value % 16]

\* xch: the new ALU; the old accumulator is returned as it is stored
xch(alu, value) == [alu EXCEPT !.acc = value % 16]

daa(alu) ==
    IF alu.carry \/ alu.acc > 9
    THEN LET result == alu.acc + 6
         IN [alu EXCEPT !.carry = IF result > 15 THEN TRUE ELSE alu.carry,
                        !.acc = result % 16]
    ELSE alu

tcc(alu) == [alu EXCEPT !.acc = CarryBit(alu), !.carry = FALSE]

kbp(alu) ==
    [alu EXCEPT !.acc = CASE alu.acc = 0 -> 0
                          [] alu.acc = 1 -> 1
                          [] alu.acc = 2 -> 2
                          [] alu.acc = 4 -> 3
                          [] alu.acc = 8 -> 4
                          [] OTHER -> 15]

(***************************************************************************)
(* 4004 register file (i4004/registers.rs)                                 *)
(***************************************************************************)
RegistersNew ==
    [index |-> [r \in 0 .. 15 |-> 0], pc |-> 0,
     stack |-> [k \in 0 .. 2 |-> 0], sp |-> 0]

pc(regs) == regs.pc % 4096

set_pc(regs, addr) == [regs EXCEPT !.pc = addr % 4096]

increment_pc(regs) == [regs EXCEPT !.pc = (regs.pc + 1) % 4096]

get_r(regs, index) == regs.index[index % 16] % 16

set_r(regs, index, value) == [regs EXCEPT !.index[index % 16] = value % 16]

get_pair(regs, pair) ==
    LET base == (pair % 8) * 2
    IN (regs.index[base] % 16) * 16 + (regs.index[base + 1] % 16)

set_pair(regs, pair, value) ==
    LET base == (pair % 8) * 2
    IN [regs EXCEPT !.index[base] = (value \div 16) % 16,
                    !.index[base + 1] = value % 16]

call(regs, addr) ==
    [regs EXCEPT !.stack[regs.sp] = regs.pc,
                 !.sp = (regs.sp + 1) % 3,
                 !.pc = addr % 4096]

\* ret with a stack pointer that stops at 0
retWithoutWrap(regs) ==
    LET sp == IF regs.sp = 0 THEN 0 ELSE regs.sp - 1
    IN [regs EXCEPT !.sp = sp, !.pc = regs.stack[sp]]

ret(regs) ==
    LET sp == IF regs.sp = 0 THEN 2 ELSE regs.sp - 1
    IN [regs EXCEPT !.sp = sp, !.pc = regs.stack[sp]]

\* inc_r: the registers after the increment; inc_r_wrapped: its return value
inc_r(regs, index) ==
    [regs EXCEPT !.index[index % 16] = (regs.index[index % 16] + 1) % 16]

inc_r_wrapped(regs, index) == (regs.index[index % 16] + 1) % 16 = 0

(***************************************************************************)
(* 4004 instruction decoder (i4004/instruction_decode.rs)                  *)
(***************************************************************************)
\* enum Instruction; a and b are the fields of the variant, in order
Instr(op, a, b) == [op |-> op, a |-> a, b |-> b]

Invalid(opcode) == Instr("Invalid", opcode, 0)

IoOps ==
    <<"Wrm", "Wmp", "Wrr", "Wpm", "Wr0", "Wr1", "Wr2", "Wr3",
      "Sbm", "Rdm", "Rdr", "Adm", "Rd0", "Rd1", "Rd2", "Rd3">>

AccOps ==
    <<"Clb", "Clc", "Iac", "Cmc", "Cma", "Ral", "Rar", "Tcc",
      "Dac", "Tcs", "Stc", "Daa", "Kbp", "Dcl">>

InstructionDecoderNew ==
    [opr |-> 0, opa |-> 0, two_byte |-> FALSE, operand |-> 0,
     instruction |-> None]

decode_single_byte(d) ==
    CASE d.opr = 0 -> Instr("Nop", 0, 0)
      [] d.opr = 2 -> IF d.opa % 2 = 1
                      THEN Instr("Src", d.opa \div 2, 0)
                      ELSE Invalid(d.opr * 16 + d.opa)
      [] d.opr = 3 -> IF d.opa % 2 = 0
                      THEN Instr("Fin", d.opa \div 2, 0)
                      ELSE Instr("Jin", d.opa \div 2, 0)
      [] d.opr = 6 -> Instr("Inc", d.opa, 0)
      [] d.opr = 8 -> Instr("Add", d.opa, 0)
      [] d.opr = 9 -> Instr("Sub", d.opa, 0)
      [] d.opr = 10 -> Instr("Ld", d.opa, 0)
      [] d.opr = 11 -> Instr("Xch", d.opa, 0)
      [] d.opr = 12 -> Instr("Bbl", d.opa, 0)
      [] d.opr = 13 -> Instr("Ldm", d.opa, 0)
      [] d.opr = 14 -> Instr(IoOps[d.opa + 1], 0, 0)
      [] d.opr = 15 -> IF d.opa <= 13
                       THEN Instr(AccOps[d.opa + 1], 0, 0)
                       ELSE Invalid(d.opr * 16 + d.opa)
      [] OTHER -> Invalid(d.opr * 16 + d.opa)

decode_two_byte(d) ==
    CASE d.opr = 1 -> Instr("Jcn", d.opa, d.operand)
      [] d.opr = 2 -> Instr("Fim", d.opa \div 2, d.operand)
      [] d.opr = 4 -> Instr("Jun", d.opa, d.operand)
      [] d.opr = 5 -> Instr("Jms", d.opa, d.operand)
      [] d.opr = 7 -> Instr("Isz", d.opa, d.operand)
      [] OTHER -> Invalid(d.opr * 16 + d.opa)

\* decode_first that takes every byte with OPR 2 for a two-byte instruction
decode_firstSrcTwoByte(d, byte) ==
    LET opr == (byte \div 16) % 16
        opa == byte % 16
        two_byte == opr \in {1, 2, 4, 5, 7}
        d1 == [d EXCEPT !.opr = opr, !.opa = opa, !.operand = 0,
                        !.two_byte = two_byte]
    IN [d1 EXCEPT !.instruction = IF two_byte THEN None
                                  ELSE Some(decode_single_byte(d1))]

decode_first(d, byte) ==
    LET opr == (byte \div 16) % 16
        opa == byte % 16
        two_byte == /\ opr \in {1, 2, 4, 5, 7}
                    /\ (opr # 2 \/ opa % 2 = 0)
                    /\ opr # 3
        d1 == [d EXCEPT !.opr = opr, !.opa = opa, !.operand = 0,
                        !.two_byte = two_byte]
    IN [d1 EXCEPT !.instruction = IF two_byte THEN None
                                  ELSE Some(decode_single_byte(d1))]

decode_second(d, byte) ==
    LET d1 == [d EXCEPT !.operand = byte]
    IN [d1 EXCEPT !.instruction = Some(decode_two_byte(d1))]

get_instruction(d) == d.instruction

needs_second_byte(d) == d.two_byte /\ d.instruction = None

length(instr) ==
    IF instr.op \in {"Jcn", "Fim", "Jun", "Jms", "Isz"} THEN 2 ELSE 1

(***************************************************************************)
(* 4004 CPU (i4004/mod.rs); the timing block is never touched by tick()    *)
(***************************************************************************)
I4004New ==
    [alu |-> AluNew, registers |-> RegistersNew,
     decoder |-> InstructionDecoderNew, cycle |-> CycleStateNew,
     instruction_byte |-> 0, operand |-> 0, ram_address |-> 0,
     ram_chip |-> 0, test_pin |-> FALSE, io_data |-> 0]

evaluate_condition(c, condition) ==
    LET invert_result == Bit(condition, 3) = 1
        test_acc_zero == Bit(condition, 2) = 1
        test_carry == Bit(condition, 1) = 1
        test_pin == Bit(condition, 0) = 1
        result == \/ test_acc_zero /\ accumulator(c.alu) = 0
                  \/ test_carry /\ c.alu.carry
                  \/ test_pin /\ c.test_pin
    IN IF invert_result THEN ~result ELSE result

\* (pc & 0xF00) | low
SamePage(c, low) == (pc(c.registers) \div 256) * 256 + low

\* a value for TCS that does not look at the carry flag
TcsValueAlwaysNine(alu) == 9

\* the value TCS loads: if self.alu.carry() { 10 } else { 9 }
TcsValue(alu) == IF alu.carry THEN 10 ELSE 9

\* execute(instr, bus): the CPU and the bus lines after the instruction
execute(c, instr, l) ==
    LET regs == c.registers
        alu == c.alu
        same == [cpu |-> c, bus |-> l]
    IN CASE instr.op = "Jcn" ->
                IF evaluate_condition(c, instr.a)
                THEN [same EXCEPT !.cpu.registers =
                                      set_pc(regs, SamePage(c, instr.b))]
                ELSE same
         [] instr.op = "Fim" ->
                [same EXCEPT !.cpu.registers = set_pair(regs, instr.a, instr.b)]
         [] instr.op = "Src" ->
                [same EXCEPT !.cpu.ram_address = get_pair(regs, instr.a) % 16,
                             !.cpu.ram_chip = get_pair(regs, instr.a) \div 16]
         [] instr.op = "Fin" ->
                [same EXCEPT !.cpu.io_data = get_pair(regs, 0)]
         [] instr.op = "Jin" ->
                [same EXCEPT !.cpu.registers =
                                 set_pc(regs, SamePage(c, get_pair(regs, instr.a)))]
         [] instr.op = "Jun" ->
                [same EXCEPT !.cpu.registers =
                                 set_pc(regs, instr.a * 256 + instr.b)]
         [] instr.op = "Jms" ->
                [same EXCEPT !.cpu.registers =
                                 call(regs, instr.a * 256 + instr.b)]
         [] instr.op = "Isz" ->
                IF inc_r_wrapped(regs, instr.a)
                THEN [same EXCEPT !.cpu.registers = inc_r(regs, instr.a)]
                ELSE [same EXCEPT !.cpu.registers =
                                      set_pc(inc_r(regs, instr.a),
                                             SamePage(c, instr.b))]
         [] instr.op = "Inc" ->
                [same EXCEPT !.cpu.registers = inc_r(regs, instr.a)]
         [] instr.op = "Add" ->
                [same EXCEPT !.cpu.alu = add(alu, get_r(regs, instr.a))]
         [] instr.op = "Sub" ->
                [same EXCEPT !.cpu.alu = sub(alu, get_r(regs, instr.a))]
         [] instr.op = "Ld" ->
                [same EXCEPT !.cpu.alu = load(alu, get_r(regs, instr.a))]
         [] instr.op = "Xch" ->
                [same EXCEPT !.cpu.alu = xch(alu, get_r(regs, instr.a)),
                             !.cpu.registers = set_r(regs, instr.a, alu.acc)]
         [] instr.op = "Bbl" ->
                [same EXCEPT !.cpu.registers = ret(regs),
                             !.cpu.alu = load(alu, instr.a)]
         [] instr.op = "Ldm" ->
                [same EXCEPT !.cpu.alu = load(alu, instr.a)]
         [] instr.op \in {"Wrm", "Wmp", "Wrr", "Wpm",
                          "Wr0", "Wr1", "Wr2", "Wr3"} ->
                [same EXCEPT !.bus = write(l, accumulator(alu))]
         [] instr.op = "Sbm" ->
                [same EXCEPT !.cpu.alu = sub(alu, read(l))]
         [] instr.op \in {"Rdm", "Rdr", "Rd0", "Rd1", "Rd2", "Rd3"} ->
                [same EXCEPT !.cpu.alu = load(alu, read(l))]
         [] instr.op = "Adm" ->
                [same EXCEPT !.cpu.alu = add(alu, read(l))]
         [] instr.op = "Clb" -> [same EXCEPT !.cpu.alu = clb(alu)]
         [] instr.op = "Clc" -> [same EXCEPT !.cpu.alu = set_carry(alu, FALSE)]
         [] instr.op = "Iac" -> [same EXCEPT !.cpu.alu = iac(alu)]
         [] instr.op = "Cmc" -> [same EXCEPT !.cpu.alu = cmc(alu)]
         [] instr.op = "Cma" -> [same EXCEPT !.cpu.alu = cma(alu)]
         [] instr.op = "Ral" -> [same EXCEPT !.cpu.alu = ral(alu)]
         [] instr.op = "Rar" -> [same EXCEPT !.cpu.alu = rar(alu)]
         [] instr.op = "Tcc" -> [same EXCEPT !.cpu.alu = tcc(alu)]
         [] instr.op = "Dac" -> [same EXCEPT !.cpu.alu = dac(alu)]
         [] instr.op = "Tcs" ->
                [same EXCEPT !.cpu.alu =
                     set_carry(set_accumulator(alu, TcsValue(alu)), FALSE)]
         [] instr.op = "Stc" -> [same EXCEPT !.cpu.alu = stc(alu)]
         [] instr.op = "Daa" -> [same EXCEPT !.cpu.alu = daa(alu)]
         [] instr.op = "Kbp" -> [same EXCEPT !.cpu.alu = kbp(alu)]
         [] OTHER -> same

\* the phase functions work on x = [cpu, bus, control]
phase_a1(x) ==
    [x EXCEPT !.bus = write(x.bus, pc(x.cpu.registers) % 16),
              !.control = assert_sync(x.control)]

\* phase_a2 leaving SYNC asserted
phase_a2KeepsSync(x) ==
    [x EXCEPT !.bus = write(x.bus, (pc(x.cpu.registers) \div 16) % 16)]

phase_a2(x) ==
    [x EXCEPT !.bus = write(x.bus, (pc(x.cpu.registers) \div 16) % 16),
              !.control = deassert_sync(x.control)]

phase_a3(x) ==
    [x EXCEPT !.bus = write(x.bus, (pc(x.cpu.registers) \div 256) % 16),
              !.control = select_rom(x.control, pc(x.cpu.registers) \div 256)]

phase_m1(x) ==
    [x EXCEPT !.cpu.instruction_byte =
                  (x.cpu.instruction_byte \div 16) * 16 + (read(x.bus) % 16)]

phase_m2(x) ==
    [x EXCEPT !.cpu.instruction_byte =
                  (x.cpu.instruction_byte % 16) + (read(x.bus) % 16) * 16]

phase_x1(x) ==
    [x EXCEPT !.cpu.decoder =
                  IF x.cpu.cycle.second_cycle
                  THEN decode_second(x.cpu.decoder, x.cpu.instruction_byte)
                  ELSE decode_first(x.cpu.decoder, x.cpu.instruction_byte)]

phase_x2(x) ==
    IF ~needs_second_byte(x.cpu.decoder)
       /\ get_instruction(x.cpu.decoder) # None
    THEN Only({[x EXCEPT !.cpu = r.cpu, !.bus = r.bus] :
                  r \in {execute(x.cpu, get_instruction(x.cpu.decoder)[1],
                                 x.bus)}})
    ELSE x

\* phase_x3 without the increment of the program counter
phase_x3NoIncrement(x) ==
    [x EXCEPT !.cpu.cycle.two_cycle = FALSE, !.cpu.cycle.second_cycle = FALSE]

phase_x3(x) ==
    IF get_instruction(x.cpu.decoder) # None
    THEN LET instr == get_instruction(x.cpu.decoder)[1]
             second == x.cpu.cycle.second_cycle
             regs1 == IF length(instr) = 1 \/ second
                      THEN increment_pc(x.cpu.registers)
                      ELSE x.cpu.registers
         IN IF length(instr) = 2 /\ ~second
            THEN [x EXCEPT !.cpu.cycle.two_cycle = TRUE,
                           !.cpu.cycle.second_cycle = TRUE,
                           !.cpu.registers = increment_pc(regs1)]
            ELSE [x EXCEPT !.cpu.cycle.two_cycle = FALSE,
                           !.cpu.cycle.second_cycle = FALSE,
                           !.cpu.registers = regs1]
    ELSE x

\* the match on phase in I4004::tick
CpuPhase(ph, x) ==
    CASE ph = "A1" -> phase_a1(x)
      [] ph = "A2" -> phase_a2(x)
      [] ph = "A3" -> phase_a3(x)
      [] ph = "M1" -> phase_m1(x)
      [] ph = "M2" -> phase_m2(x)
      [] ph = "X1" -> phase_x1(x)
      [] ph = "X2" -> phase_x2(x)
      [] ph = "X3" -> phase_x3(x)

\* I4004::tick(phase, bus, ctrl)
CpuTick(ph, x) ==
    Only({[y EXCEPT !.cpu.cycle = advance(y.cpu.cycle)] : y \in {CpuPhase(ph, x)}})

(***************************************************************************)
(* 4001 ROM (i4001.rs)                                                     *)
(***************************************************************************)
\* the array rom: [u8; 256] is kept as a function on the addresses that hold
\* a byte other than 0
RomByte(chip, addr) == IF addr \in DOMAIN chip.rom THEN chip.rom[addr] ELSE 0

NonZeroBytes(f(_)) == [a \in {b \in 0 .. 255 : f(b) # 0} |-> f(a)]

I4001New(chip_id) ==
    [rom |-> <<>>, io_output |-> 0, io_input |-> 0, chip_id |-> chip_id % 16,
     address |-> 0, selected |-> FALSE, phase |-> "A1"]

\* I4001::load; data[1] goes to ROM address 0
I4001Load(chip, data) ==
    LET len == IF Len(data) < 256 THEN Len(data) ELSE 256
        loaded(a) == IF a < len THEN data[a + 1] ELSE RomByte(chip, a)
    IN [chip EXCEPT !.rom = NonZeroBytes(loaded)]

\* I4001::load_at; data[1] goes to ROM address offset
I4001LoadAt(chip, offset, data) ==
    LET end == IF offset + Len(data) < 256 THEN offset + Len(data) ELSE 256
        len == IF end > offset THEN end - offset ELSE 0
        loaded(a) == IF len > 0 /\ a >= offset /\ a < end
                     THEN data[a - offset + 1] ELSE RomByte(chip, a)
    IN [chip EXCEPT !.rom = NonZeroBytes(loaded)]

\* I4001::tick_bus: the chip and the bus lines after the phase
I4001TickBus(chip, ph, l, ctrl) ==
    LET c == [chip EXCEPT !.phase = ph]
        data == RomByte(c, c.address)
    IN CASE ph = "A1" ->
                [chip |-> [c EXCEPT !.address = (c.address \div 16) * 16
                                                + (read(l) % 16),
                                    !.selected = FALSE],
                 bus |-> l]
         [] ph = "A2" ->
                [chip |-> [c EXCEPT !.address = (c.address % 16)
                                                + (read(l) % 16) * 16],
                 bus |-> l]
         [] ph = "A3" ->
                [chip |-> [c EXCEPT !.selected = (cm_rom(ctrl) = c.chip_id)],
                 bus |-> l]
         [] ph = "M1" ->
                [chip |-> c,
                 bus |-> IF c.selected THEN write(l, data % 16) ELSE l]
         [] ph = "M2" ->
                [chip |-> c,
                 bus |-> IF c.selected THEN write(l, (data \div 16) % 16) ELSE l]
         [] ph = "X1" -> [chip |-> c, bus |-> l]
         [] ph = "X2" ->
                [chip |-> IF c.selected /\ is_io_write(ctrl)
                          THEN [c EXCEPT !.io_output = read(l) % 16]
                          ELSE c,
                 bus |-> l]
         [] ph = "X3" ->
                [chip |-> c,
                 bus |-> IF c.selected /\ is_io_read(ctrl)
                         THEN write(l, c.io_input) ELSE l]

(***************************************************************************)
(* 4002 RAM (i4002.rs)                                                     *)
(***************************************************************************)
\* the array ram: [[u8; 16]; 4] is kept as a function on the pairs
\* <<register, character>> that hold a nibble other than 0
RamNibble(chip, reg, ch) ==
    IF <<reg, ch>> \in DOMAIN chip.ram THEN chip.ram[<<reg, ch>>] ELSE 0

SetRamNibble(chip, reg, ch, value) ==
    LET stored(k) == IF k = <<reg, ch>> THEN value ELSE chip.ram[k]
    IN [chip EXCEPT !.ram =
            [k \in {j \in (DOMAIN chip.ram) \cup {<<reg, ch>>} : stored(j) # 0}
                |-> stored(k)]]

I4002New(chip_id, bank_id) ==
    [ram |-> <<>>,
     status |-> [r \in 0 .. 3 |-> 0], output |-> 0,
     chip_id |-> chip_id % 4, bank_id |-> bank_id % 4,
     selected_register |-> 0, selected_char |-> 0, selected |-> FALSE,
     phase |-> "A1"]

I4002ReadDirect(chip, reg, char_idx) ==
    RamNibble(chip, reg % 4, char_idx % 16) % 16

I4002WriteDirect(chip, reg, char_idx, value) ==
    SetRamNibble(chip, reg % 4, char_idx % 16, value % 16)

\* I4002::tick_bus: the chip and the bus lines after the phase
I4002TickBus(chip, ph, l, ctrl) ==
    LET c == [chip EXCEPT !.phase = ph]
        bank_selected == cm_ram(ctrl) = c.bank_id
    IN CASE ph = "X1" ->
                [chip |-> [c EXCEPT !.selected = bank_selected], bus |-> l]
         [] ph = "X2" ->
                [chip |-> IF c.selected /\ is_io_write(ctrl)
                          THEN SetRamNibble(c, c.selected_register,
                                            c.selected_char, read(l) % 16)
                          ELSE c,
                 bus |-> l]
         [] ph = "X3" ->
                [chip |-> c,
                 bus |-> IF c.selected /\ is_io_read(ctrl)
                         THEN write(l, RamNibble(c, c.selected_register,
                                                 c.selected_char))
                         ELSE l]
         [] OTHER -> [chip |-> c, bus |-> l]

(***************************************************************************)
(* Mcs4System (mcs4.rs); the system never ticks its clock                  *)
(***************************************************************************)
DataBusNew == AllLines("Z")

Minimal ==
    [cpu |-> I4004New, rom |-> <<I4001New(0)>>, ram |-> <<I4002New(0, 0)>>,
     bus |-> DataBusNew, control |-> ControlSignalsMcs4,
     cycle |-> CycleStateNew, total_cycles |-> 0, breakpoints |-> <<>>]

Standard ==
    [cpu |-> I4004New,
     rom |-> <<I4001New(0), I4001New(1), I4001New(2), I4001New(3)>>,
     ram |-> <<I4002New(0, 0), I4002New(1, 0), I4002New(2, 0), I4002New(3, 0),
               I4002New(0, 1), I4002New(1, 1), I4002New(2, 1), I4002New(3, 1)>>,
     bus |-> DataBusNew, control |-> ControlSignalsMcs4,
     cycle |-> CycleStateNew, total_cycles |-> 0, breakpoints |-> <<>>]

Maximal ==
    [cpu |-> I4004New,
     rom |-> [i \in 1 .. 16 |-> I4001New(i - 1)],
     ram |-> [i \in 1 .. 16 |-> I4002New((i - 1) % 4, (i - 1) \div 4)],
     bus |-> DataBusNew, control |-> ControlSignalsMcs4,
     cycle |-> CycleStateNew, total_cycles |-> 0, breakpoints |-> <<>>]

\* data.chunks(256): chunk i (from 0) of the sequence data
Chunk(data, i) ==
    SubSeq(data, 256 * i + 1,
           IF Len(data) < 256 * (i + 1) THEN Len(data) ELSE 256 * (i + 1))

\* Mcs4System::load_rom on the list of ROM chips
load_rom(roms, data) ==
    [i \in 1 .. Len(roms) |->
        IF 256 * (i - 1) < Len(data)
        THEN I4001Load(roms[i], Chunk(data, i - 1))
        ELSE roms[i]]

\* self.rom.iter_mut().find(|r| r.chip_id == chip_id): the position of the
\* first such chip, 0 if there is none
find(roms, chip_id) ==
    IF \E i \in 1 .. Len(roms) : roms[i].chip_id = chip_id
    THEN CHOOSE i \in 1 .. Len(roms) :
            /\ roms[i].chip_id = chip_id
            /\ \A j \in 1 .. i - 1 : roms[j].chip_id # chip_id
    ELSE 0

\* Mcs4System::load_rom_at, the loop from data[offset + 1] on
RECURSIVE load_rom_at(_, _, _, _)
load_rom_at(roms, address, data, offset) ==
    IF offset >= Len(data) THEN roms
    ELSE LET addr == address + offset
             chip_id == (addr \div 256) % 16
             chip_addr == addr % 256
             at == find(roms, chip_id)
         IN load_rom_at(IF at # 0
                        THEN [roms EXCEPT ![at] =
                                 I4001LoadAt(@, chip_addr, <<data[offset + 1]>>)]
                        ELSE roms,
                        address, data, offset + 1)

\* for rom in &mut self.rom { rom.tick_bus(..) }, chips from..Len in order:
\* the chips and the bus lines after the loop
RECURSIVE TickRoms(_, _, _, _, _)
TickRoms(roms, from, ph, l, ctrl) ==
    IF from > Len(roms)
    THEN [chips |-> roms, bus |-> l]
    ELSE Only({TickRoms(r.chips, from + 1, ph, r.bus, ctrl) :
                  r \in {[chips |-> [roms EXCEPT ![from] = t.chip],
                          bus |-> t.bus] :
                            t \in {I4001TickBus(roms[from], ph, l, ctrl)}}})

\* for ram in &mut self.ram { ram.tick_bus(..) }
RECURSIVE TickRams(_, _, _, _, _)
TickRams(rams, from, ph, l, ctrl) ==
    IF from > Len(rams)
    THEN [chips |-> rams, bus |-> l]
    ELSE Only({TickRams(r.chips, from + 1, ph, r.bus, ctrl) :
                  r \in {[chips |-> [rams EXCEPT ![from] = t.chip],
                          bus |-> t.bus] :
                            t \in {I4002TickBus(rams[from], ph, l, ctrl)}}})

\* the CPU's view of the system: the chip, the bus lines, the control signals
CpuView(s) == [cpu |-> s.cpu, bus |-> s.bus, control |-> s.control]

\* A1, A2, A3: the CPU drives the address, then the ROMs and the RAMs tick
StepAddress(s, ph) ==
    Only({Only({Only({[s EXCEPT !.cpu = x.cpu, !.control = x.control,
                                !.rom = ro.chips, !.ram = ra.chips,
                                !.bus = ra.bus] :
                         ra \in {TickRams(s.ram, 1, ph, ro.bus, x.control)}}) :
                   ro \in {TickRoms(s.rom, 1, ph, x.bus, x.control)}}) :
             x \in {CpuTick(ph, CpuView(s))}})

\* M1, M2: the ROMs drive the instruction, then the CPU reads
StepMemory(s, ph) ==
    Only({Only({[s EXCEPT !.cpu = x.cpu, !.control = x.control,
                          !.rom = ro.chips, !.bus = x.bus] :
                   x \in {CpuTick(ph, [cpu |-> s.cpu, bus |-> ro.bus,
                                       control |-> s.control])}}) :
             ro \in {TickRoms(s.rom, 1, ph, s.bus, s.control)}})

\* X1, X2, X3: the RAMs tick, then the ROMs, then the CPU
StepExecute(s, ph) ==
    Only({Only({Only({[s EXCEPT !.cpu = x.cpu, !.control = x.control,
                                !.rom = ro.chips, !.ram = ra.chips,
                                !.bus = x.bus] :
                         x \in {CpuTick(ph, [cpu |-> s.cpu, bus |-> ro.bus,
                                             control |-> s.control])}}) :
                   ro \in {TickRoms(s.rom, 1, ph, ra.bus, s.control)}}) :
             ra \in {TickRams(s.ram, 1, ph, s.bus, s.control)}})

\* the end of step(): the phase advances and total_cycles counts the cycle
StepAdvance(s) ==
    Only({[s EXCEPT !.cycle = cyc,
                    !.total_cycles = IF cyc.phase = "A1" THEN @ + 1 ELSE @] :
             cyc \in {advance(s.cycle)}})

\* Mcs4System::step on a system value s
step(s) ==
    Only({StepAdvance(t) :
             t \in {IF s.cycle.phase \in {"A1", "A2", "A3"}
                    THEN StepAddress(s, s.cycle.phase)
                    ELSE IF s.cycle.phase \in {"M1", "M2"}
                    THEN StepMemory(s, s.cycle.phase)
                    ELSE StepExecute(s, s.cycle.phase)}})

\* Mcs4System::run_cycles: cycles * 8 calls of step, n of them still to make
RECURSIVE Steps(_, _)
Steps(s, n) ==
    IF n = 0 THEN s ELSE Only({Steps(t, n - 1) : t \in {step(s)}})

run_cycles(s, cycles) == Steps(s, cycles * 8)

\* reset() without the loop that renews the RAM chips
resetKeepsRam(s) ==
    [s EXCEPT !.cpu = I4004New, !.bus = DataBusNew,
              !.control = ControlSignalsMcs4, !.cycle = CycleStateNew]

\* Mcs4System::reset; the ROM chips, total_cycles and the breakpoints stay
reset(s) ==
    [s EXCEPT !.cpu = I4004New, !.bus = DataBusNew,
              !.control = ControlSignalsMcs4, !.cycle = CycleStateNew,
              !.ram = [i \in 1 .. Len(s.ram) |->
                          I4002New(s.ram[i].chip_id, s.ram[i].bank_id)]]

\* self.breakpoints.contains(&addr)
contains(breakpoints, addr) == \E k \in 1 .. Len(breakpoints) : breakpoints[k] = addr

\* Mcs4System::add_breakpoint
add_breakpoint(s, addr) ==
    IF ~contains(s.breakpoints, addr)
    THEN [s EXCEPT !.breakpoints = Append(@, addr)]
    ELSE s

\* Mcs4System::remove_breakpoint
remove_breakpoint(s, addr) ==
    LET Keep(a) == a # addr
    IN [s EXCEPT !.breakpoints = SelectSeq(@, Keep)]

\* Mcs4System::clear_breakpoints
clear_breakpoints(s) == [s EXCEPT !.breakpoints = <<>>]

\* run_until_breakpoint, the test made after every step, in any phase
BreakpointHitAnyPhase(t) == contains(t.breakpoints, pc(t.cpu.registers))

\* run_until_breakpoint, the test made after every step
BreakpointHit(t) ==
    /\ t.cycle.phase = "A1"
    /\ contains(t.breakpoints, pc(t.cpu.registers))

\* run_until_breakpoint, one pass of the while loop on r: the system, whether
\* the function has returned, and the value it returned
LoopPass(r, start, max_cycles) ==
    IF r.returned THEN r
    ELSE IF r.sys.total_cycles - start < max_cycles
    THEN Only({[sys |-> t, returned |-> BreakpointHit(t), hit |-> BreakpointHit(t)] :
                  t \in {step(r.sys)}})
    ELSE [r EXCEPT !.returned = TRUE]

\* n passes of the while loop, made in two halves
RECURSIVE LoopPasses(_, _, _, _)
LoopPasses(r, n, start, max_cycles) ==
    IF n = 0 THEN r
    ELSE IF n = 1 THEN LoopPass(r, start, max_cycles)
    ELSE Only({LoopPasses(half, n - (n \div 2), start, max_cycles) :
                  half \in {LoopPasses(r, n \div 2, start, max_cycles)}})

\* Mcs4System::run_until_breakpoint: the loop is followed for the 8 steps of
\* each of the max_cycles cycles and the test that ends it
run_until_breakpoint(s, max_cycles) ==
    LoopPasses([sys |-> s, returned |-> FALSE, hit |-> FALSE],
               8 * max_cycles + 1, s.total_cycles, max_cycles)

\* ROM images: every one-byte program, and the programs of the examples
JunImage == <<4 * 16 + 1, 2 * 16 + 3>>

\* JMS 0x010 at 0x000; LDM 7, BBL 0 at 0x010
JmsImage ==
    <<5 * 16 + 0, 1 * 16 + 0>> \o [i \in 1 .. 14 |-> 0]
    \o <<13 * 16 + 7, 12 * 16 + 0>>

\* LDM 3; XCH 1; JIN 0
JinImage == <<13 * 16 + 3, 11 * 16 + 1, 3 * 16 + 1>>

\* LDM 5; WRM
WrmImage == <<13 * 16 + 5, 14 * 16 + 0>>

\* CMA; XCH 0; CMA; XCH 1; JIN 0 in page 0, and WRM at 0x100
WrmPage1Image ==
    <<15 * 16 + 4, 11 * 16 + 0, 15 * 16 + 4, 11 * 16 + 1, 3 * 16 + 1>>
    \o [i \in 1 .. 251 |-> 0] \o <<14 * 16 + 0>>

\* CMA; XCH 0; CMA; XCH 1; JIN 0 in page 0, and LDM 5 at 0x100
LdmPage1Image ==
    <<15 * 16 + 4, 11 * 16 + 0, 15 * 16 + 4, 11 * 16 + 1, 3 * 16 + 1>>
    \o [i \in 1 .. 251 |-> 0] \o <<13 * 16 + 5>>

\* the programs that leave ROM page 0
PageImages == {WrmPage1Image, LdmPage1Image}

\* RDM
RdmImage == <<14 * 16 + 9>>

\* LDM 5; XCH 1; SRC 0
SrcImage == <<13 * 16 + 5, 11 * 16 + 1, 2 * 16 + 1>>

\* the programs of the examples, NOP and LDM 5
RomImages ==
    {<<0>>, <<13 * 16 + 5>>, JunImage, JmsImage, JinImage, WrmImage,
     WrmPage1Image, RdmImage, SrcImage}

\* every one-byte program
OneByteImages == {<<b>> : b \in 0 .. 255}

\* NOP sixteen times
NopImage == [i \in 1 .. 16 |-> 0]

\* the programs run to a breakpoint: NOPs and JUN 0x123
BreakImages == {NopImage, JunImage}

\* the addresses a debugger registers as breakpoints
BreakAddrs == {0, 4}

\* the cycle budgets a debugger passes to run_until_breakpoint
BreakLimits == {0, 1, 5}

\* the nibbles a test stores with write_direct
DirectValues == {9}

\* Mcs4System::minimal or Mcs4System::standard
InitSys ==
    /\ sys \in {Minimal, Standard}
    /\ sys_op = "new"
    /\ sys_call = None

\* Mcs4System::standard or Mcs4System::maximal
InitSysBanks ==
    /\ sys \in {Standard, Maximal}
    /\ sys_op = "new"
    /\ sys_call = None

\* Mcs4System::minimal
InitSysMinimal ==
    /\ sys = Minimal
    /\ sys_op = "new"
    /\ sys_call = None

\* a minimal system that is never stepped
SysFresh == InitSysMinimal

\* load_rom(data)
LoadRom(data) ==
    /\ sys' = [sys EXCEPT !.rom = load_rom(sys.rom, data)]
    /\ sys_op' = "load_rom"
    /\ sys_call' = None

\* step()
SysStep ==
    /\ sys' = step(sys)
    /\ sys_op' = "step"
    /\ sys_call' = None

\* run_cycles(cycles)
RunCycles(cycles) ==
    /\ sys' = run_cycles(sys, cycles)
    /\ sys_op' = "run_cycles"
    /\ sys_call' = None

\* reset()
SysReset ==
    /\ sys' = reset(sys)
    /\ sys_op' = "reset"
    /\ sys_call' = None

\* self.ram[i].write_direct(reg, char_idx, value), i from 0
WriteDirect(i, reg, char_idx, value) ==
    /\ i < Len(sys.ram)
    /\ sys' = [sys EXCEPT !.ram[i + 1] =
                   I4002WriteDirect(sys.ram[i + 1], reg, char_idx, value)]
    /\ sys_op' = "write_direct"
    /\ sys_call' = None

\* the addresses (u16) and the bytes a caller passes to load_rom_at
LoadAddrs == {0, 255, 3 * 256 + 255, 15 * 256 + 255, 4096}

LoadData == {<<10 * 16 + 10>>, <<10 * 16 + 10, 11 * 16 + 11>>, <<0, 13 * 16 + 5>>}

\* load_rom_at(address, data)
LoadRomAt(address, data) ==
    /\ sys' = [sys EXCEPT !.rom = load_rom_at(sys.rom, address, data, 0)]
    /\ sys_op' = "load_rom_at"
    /\ sys_call' = Some([address |-> address, data |-> data])

\* add_breakpoint(addr)
AddBreakpoint(addr) ==
    /\ sys' = add_breakpoint(sys, addr)
    /\ sys_op' = "add_breakpoint"
    /\ sys_call' = None

\* remove_breakpoint(addr)
RemoveBreakpoint(addr) ==
    /\ sys' = remove_breakpoint(sys, addr)
    /\ sys_op' = "remove_breakpoint"
    /\ sys_call' = None

\* clear_breakpoints()
ClearBreakpoints ==
    /\ sys' = clear_breakpoints(sys)
    /\ sys_op' = "clear_breakpoints"
    /\ sys_call' = None

\* run_until_breakpoint(max_cycles)
RunUntilBreakpoint(max_cycles) ==
    \E r \in {run_until_breakpoint(sys, max_cycles)} :
        /\ sys' = r.sys
        /\ sys_op' = "run_until_breakpoint"
        /\ sys_call' = IF r.returned
                      THEN Some([max_cycles |-> max_cycles, hit |-> r.hit])
                      ELSE None

(***************************************************************************)
(* The parts of the 4004 called directly, as the unit tests call them      *)
(***************************************************************************)
\* the addresses the callers pass to set_pc and call (u16, one above 12 bits)
CallAddrs == {1 * 256, 2 * 256, 4096 + 2 * 256 + 3 * 16 + 4}

\* the second bytes handed to decode_second
SecondBytes == {0, 2 * 16 + 3, 255}

\* the accumulator group, executed through I4004::execute
AccInstrs == {Instr(AccOps[k], 0, 0) : k \in 1 .. 13}

\* base: the stack pointer at the first of the calls; deepest: the largest
\* number of calls not yet returned from since pcs was last empty; popped:
\* the entry of pcs that the last ret took
NoCalls == [base |-> 0, pcs |-> <<>>, deepest |-> 0, popped |-> None]

Cpu4004Fresh ==
    /\ cpu4004 = I4004New
    /\ cpu4004_op = [op |-> "new", arg |-> 0]
    /\ alu_before = AluNew
    /\ call_trail = NoCalls

InitCpu4004 == Cpu4004Fresh

\* cpu.alu.load(value)
AluLoad(value) ==
    /\ cpu4004' = [cpu4004 EXCEPT !.alu = load(cpu4004.alu, value)]
    /\ cpu4004_op' = [op |-> "load", arg |-> value]
    /\ alu_before' = cpu4004.alu
    /\ UNCHANGED call_trail

\* cpu.alu.add(value)
AluAdd(value) ==
    /\ cpu4004' = [cpu4004 EXCEPT !.alu = add(cpu4004.alu, value)]
    /\ cpu4004_op' = [op |-> "add", arg |-> value]
    /\ alu_before' = cpu4004.alu
    /\ UNCHANGED call_trail

\* cpu.alu.sub(value)
AluSub(value) ==
    /\ cpu4004' = [cpu4004 EXCEPT !.alu = sub(cpu4004.alu, value)]
    /\ cpu4004_op' = [op |-> "sub", arg |-> value]
    /\ alu_before' = cpu4004.alu
    /\ UNCHANGED call_trail

\* cpu.execute(instr, bus) for an instruction of the accumulator group
Execute(instr) ==
    /\ cpu4004' = execute(cpu4004, instr, DataBusNew).cpu
    /\ cpu4004_op' = [op |-> "execute", arg |-> instr]
    /\ alu_before' = cpu4004.alu
    /\ UNCHANGED call_trail

\* cpu.registers.set_pc(addr)
SetPc(addr) ==
    /\ cpu4004' = [cpu4004 EXCEPT !.registers = set_pc(cpu4004.registers, addr)]
    /\ cpu4004_op' = [op |-> "set_pc", arg |-> addr]
    /\ UNCHANGED <<alu_before, call_trail>>

\* cpu.registers.call(addr)
Call(addr) ==
    /\ cpu4004' = [cpu4004 EXCEPT !.registers = call(cpu4004.registers, addr)]
    /\ cpu4004_op' = [op |-> "call", arg |-> addr]
    /\ call_trail' =
           [call_trail EXCEPT
               !.pcs = Append(call_trail.pcs, pc(cpu4004.registers)),
               !.popped = None,
               !.deepest = IF call_trail.pcs = <<>> THEN 1
                           ELSE IF Len(call_trail.pcs) + 1 > call_trail.deepest
                                THEN Len(call_trail.pcs) + 1
                                ELSE call_trail.deepest]
    /\ UNCHANGED alu_before

\* cpu.registers.ret(); a ret without a call starts a new trail at the
\* stack pointer it leaves
Ret ==
    /\ cpu4004' = [cpu4004 EXCEPT !.registers = ret(cpu4004.registers)]
    /\ cpu4004_op' = [op |-> "ret", arg |-> Len(call_trail.pcs)]
    /\ call_trail' =
           IF call_trail.pcs = <<>>
           THEN [NoCalls EXCEPT !.base = ret(cpu4004.registers).sp]
           ELSE [call_trail EXCEPT
                    !.pcs = SubSeq(call_trail.pcs, 1, Len(call_trail.pcs) - 1),
                    !.popped = Some(call_trail.pcs[Len(call_trail.pcs)])]
    /\ UNCHANGED alu_before

\* cpu.decoder.decode_first(byte)
DecodeFirst(byte) ==
    /\ cpu4004' = [cpu4004 EXCEPT !.decoder = decode_first(cpu4004.decoder, byte)]
    /\ cpu4004_op' = [op |-> "decode_first", arg |-> byte]
    /\ UNCHANGED <<alu_before, call_trail>>

\* cpu.decoder.decode_second(byte)
DecodeSecond(byte) ==
    /\ cpu4004' = [cpu4004 EXCEPT !.decoder = decode_second(cpu4004.decoder, byte)]
    /\ cpu4004_op' = [op |-> "decode_second", arg |-> byte]
    /\ UNCHANGED <<alu_before, call_trail>>

(***************************************************************************)
(* 4040 register file with bank switching (i4040/registers.rs)             *)
(***************************************************************************)
RegFileNew == [regs |-> [k \in 0 .. 23 |-> 0], bank |-> 0]

\* map_index that puts bank 1 of R0..R7 on the physical registers 8..15
map_indexOntoShared(rf, r) == IF r < 8 THEN r + rf.bank * 8 ELSE r

map_index(rf, r) == IF r < 8 THEN r + rf.bank * 16 ELSE r

get(rf, r) == rf.regs[map_index(rf, r)] % 16

set(rf, r, val) == [rf EXCEPT !.regs[map_index(rf, r)] = val % 16]

\* RegFile::get_pair and RegFile::set_pair
RegFileGetPair(rf, p) == <<get(rf, p * 2), get(rf, p * 2 + 1)>>

RegFileSetPair(rf, p, hi, lo) == set(set(rf, p * 2, hi), p * 2 + 1, lo)

db0(rf) == [rf EXCEPT !.bank = 0]

db1(rf) == [rf EXCEPT !.bank = 1]

(***************************************************************************)
(* 4040 call stack (i4040/stack.rs)                                        *)
(***************************************************************************)
\* Result<T, &'static str>
Ok(v) == [tag |-> "Ok", value |-> v]

Err(e) == [tag |-> "Err", value |-> e]

CallStackNew == [stack |-> [k \in 0 .. 6 |-> 0], sp |-> 0]

depth(cs) == cs.sp

is_full(cs) == cs.sp >= 7

is_empty(cs) == cs.sp = 0

\* push that stores the address without the 12-bit mask
pushUnmasked(cs, addr) ==
    IF is_full(cs)
    THEN [stack |-> cs, result |-> Err("stack_overflow")]
    ELSE [stack |-> [cs EXCEPT !.stack[cs.sp] = addr, !.sp = cs.sp + 1],
          result |-> Ok(<<>>)]

\* push and pop: the stack after the call and the Result returned
push(cs, addr) ==
    IF is_full(cs)
    THEN [stack |-> cs, result |-> Err("stack_overflow")]
    ELSE [stack |-> [cs EXCEPT !.stack[cs.sp] = addr % 4096, !.sp = cs.sp + 1],
          result |-> Ok(<<>>)]

pop(cs) ==
    IF is_empty(cs)
    THEN [stack |-> cs, result |-> Err("stack_underflow")]
    ELSE [stack |-> [cs EXCEPT !.sp = cs.sp - 1],
          result |-> Ok(cs.stack[cs.sp - 1])]

peek(cs) == IF is_empty(cs) THEN None ELSE Some(cs.stack[cs.sp - 1])

(***************************************************************************)
(* 4040 interrupt controller (i4040/interrupt.rs)                          *)
(***************************************************************************)
InterruptCtrlDefault == [enabled |-> FALSE, pending |-> FALSE, src_save |-> 0]

ein(ic) == [ic EXCEPT !.enabled = TRUE]

din(ic) == [ic EXCEPT !.enabled = FALSE]

request(ic) == IF ic.enabled THEN [ic EXCEPT !.pending = TRUE] ELSE ic

\* service: the controller after the call and the Option<u16> returned
service(ic, src) ==
    IF ic.pending /\ ic.enabled
    THEN [intr |-> [ic EXCEPT !.src_save = src, !.enabled = FALSE,
                              !.pending = FALSE],
          vec |-> Some(3)]
    ELSE [intr |-> ic, vec |-> None]

bbs_restore(ic) == ic.src_save

(***************************************************************************)
(* 4040 CPU core (i4040/mod.rs, i4040/instruction_decode.rs)               *)
(***************************************************************************)
Opcode4040 ==
    <<"Hlt", "Bbs", "Lcr", "Or4", "Or5", "An6", "An7", "Db0", "Db1",
      "Sb0", "Sb1", "Ein", "Din", "Rpm">>

decode_ext(op) == IF op \in 1 .. 14 THEN Some(Opcode4040[op]) ELSE None

I4040New ==
    [regs |-> RegFileNew, acc |-> 0, carry |-> FALSE, pc |-> 0,
     stack |-> CallStackNew, intr |-> InterruptCtrlDefault, halted |-> FALSE]

\* current_src is a placeholder that returns 0
current_src(c) == 0

hlt(c) == [c EXCEPT !.halted = TRUE]

resume(c) == [c EXCEPT !.halted = FALSE]

\* the byte step() decodes: let opcode: u8 = 0
FetchedOpcode == 0

\* the match on the decoded opcode in step()
Dispatch(c, decoded) ==
    IF decoded = None THEN c
    ELSE CASE decoded[1] = "Hlt" -> hlt(c)
           [] decoded[1] = "Db0" -> [c EXCEPT !.regs = db0(c.regs)]
           [] decoded[1] = "Db1" -> [c EXCEPT !.regs = db1(c.regs)]
           [] decoded[1] = "Ein" -> [c EXCEPT !.intr = ein(c.intr)]
           [] decoded[1] = "Din" -> [c EXCEPT !.intr = din(c.intr)]
           [] OTHER -> c

\* I4040::step
I4040Step(c) ==
    IF c.halted THEN c
    ELSE LET sv == service(c.intr, current_src(c))
             c1 == IF sv.vec # None
                   THEN [c EXCEPT !.intr = sv.intr,
                                  !.stack = push(c.stack, c.pc).stack,
                                  !.pc = sv.vec[1]]
                   ELSE [c EXCEPT !.intr = sv.intr]
         IN Dispatch(c1, decode_ext(FetchedOpcode))

(***************************************************************************)
(* The parts of the 4040 called directly, as the unit tests call them      *)
(***************************************************************************)
\* the addresses pushed (u16, one above 12 bits)
PushAddrs == {1 * 256, 4096 + 2 * 256 + 3 * 16 + 4}

\* the value a caller gives to cpu.pc before an interrupt
IntrPcs == {1 * 256}

\* the logical registers, pairs and values written
SetRegs == {0, 7, 8}
SetPairs == {0, 4}
SetValues == {5, 16 + 10}

NoView == [banked |-> [b \in 0 .. 1 |-> [r \in 0 .. 7 |-> 0]],
           shared |-> [r \in 8 .. 15 |-> 0]]

\* the view after logical register r was written in bank b
ViewSet(view, b, r, val) ==
    IF r < 8 THEN [view EXCEPT !.banked[b][r] = val % 16]
    ELSE [view EXCEPT !.shared[r] = val % 16]

Cpu4040Fresh ==
    /\ cpu4040 = I4040New
    /\ cpu4040_op = [op |-> "new", arg |-> 0, result |-> None]
    /\ pushed = <<>>
    /\ bank_view = NoView

InitCpu4040 == Cpu4040Fresh

\* cpu.stack.push(addr)
StackPush(addr) ==
    /\ cpu4040' = [cpu4040 EXCEPT !.stack = push(cpu4040.stack, addr).stack]
    /\ cpu4040_op' = [op |-> "push", arg |-> addr,
                      result |-> push(cpu4040.stack, addr).result]
    /\ pushed' = IF push(cpu4040.stack, addr).result.tag = "Ok"
                 THEN Append(pushed, addr) ELSE pushed
    /\ UNCHANGED bank_view

\* cpu.stack.pop()
StackPop ==
    /\ cpu4040' = [cpu4040 EXCEPT !.stack = pop(cpu4040.stack).stack]
    /\ cpu4040_op' = [op |-> "pop", arg |-> 0,
                      result |-> pop(cpu4040.stack).result]
    /\ pushed' = IF pop(cpu4040.stack).result.tag = "Ok"
                 THEN SubSeq(pushed, 1, Len(pushed) - 1) ELSE pushed
    /\ UNCHANGED bank_view

\* cpu.regs.set(r, val)
RegSet(r, val) ==
    /\ cpu4040' = [cpu4040 EXCEPT !.regs = set(cpu4040.regs, r, val)]
    /\ cpu4040_op' = [op |-> "set", arg |-> <<r, val>>, result |-> None]
    /\ bank_view' = ViewSet(bank_view, cpu4040.regs.bank, r, val)
    /\ UNCHANGED pushed

\* cpu.regs.set_pair(p, hi, lo)
RegSetPair(p, hi, lo) ==
    /\ cpu4040' = [cpu4040 EXCEPT !.regs = RegFileSetPair(cpu4040.regs, p, hi, lo)]
    /\ cpu4040_op' = [op |-> "set_pair", arg |-> <<p, hi, lo>>, result |-> None]
    /\ bank_view' = ViewSet(ViewSet(bank_view, cpu4040.regs.bank, p * 2, hi),
                            cpu4040.regs.bank, p * 2 + 1, lo)
    /\ UNCHANGED pushed

\* cpu.regs.db0()
Db0 ==
    /\ cpu4040' = [cpu4040 EXCEPT !.regs = db0(cpu4040.regs)]
    /\ cpu4040_op' = [op |-> "db0", arg |-> 0, result |-> None]
    /\ UNCHANGED <<pushed, bank_view>>

\* cpu.regs.db1()
Db1 ==
    /\ cpu4040' = [cpu4040 EXCEPT !.regs = db1(cpu4040.regs)]
    /\ cpu4040_op' = [op |-> "db1", arg |-> 0, result |-> None]
    /\ UNCHANGED <<pushed, bank_view>>

\* cpu.pc = addr
SetPc4040(addr) ==
    /\ cpu4040' = [cpu4040 EXCEPT !.pc = addr]
    /\ cpu4040_op' = [op |-> "set_pc", arg |-> addr, result |-> None]
    /\ UNCHANGED <<pushed, bank_view>>

\* cpu.intr.ein()
Ein ==
    /\ cpu4040' = [cpu4040 EXCEPT !.intr = ein(cpu4040.intr)]
    /\ cpu4040_op' = [op |-> "ein", arg |-> 0, result |-> None]
    /\ UNCHANGED <<pushed, bank_view>>

\* cpu.intr.din()
Din ==
    /\ cpu4040' = [cpu4040 EXCEPT !.intr = din(cpu4040.intr)]
    /\ cpu4040_op' = [op |-> "din", arg |-> 0, result |-> None]
    /\ UNCHANGED <<pushed, bank_view>>

\* cpu.intr.request()
Request ==
    /\ cpu4040' = [cpu4040 EXCEPT !.intr = request(cpu4040.intr)]
    /\ cpu4040_op' = [op |-> "request", arg |-> 0, result |-> None]
    /\ UNCHANGED <<pushed, bank_view>>

\* cpu.hlt()
Hlt ==
    /\ cpu4040' = hlt(cpu4040)
    /\ cpu4040_op' = [op |-> "hlt", arg |-> 0, result |-> None]
    /\ UNCHANGED <<pushed, bank_view>>

\* cpu.resume()
Cpu4040Resume ==
    /\ cpu4040' = resume(cpu4040)
    /\ cpu4040_op' = [op |-> "resume", arg |-> 0, result |-> None]
    /\ UNCHANGED <<pushed, bank_view>>

\* cpu.step(); pushed records the program counter of each interrupt that
\* the step services
Cpu4040Step ==
    /\ cpu4040' = I4040Step(cpu4040)
    /\ cpu4040_op' = [op |-> "step", arg |-> 0, result |-> None]
    /\ pushed' = IF ~cpu4040.halted /\ cpu4040.intr.enabled
                    /\ cpu4040.intr.pending
                 THEN Append(pushed, cpu4040.pc) ELSE pushed
    /\ UNCHANGED bank_view

\* cpu.intr.bbs_restore(), the code that stands for BBS
BbsRestore ==
    /\ cpu4040' = cpu4040
    /\ cpu4040_op' = [op |-> "bbs_restore", arg |-> 0,
                      result |-> Some(bbs_restore(cpu4040.intr))]
    /\ UNCHANGED <<pushed, bank_view>>

(***************************************************************************)
(* Signal (signal.rs), called directly                                     *)
(***************************************************************************)
\* Signal::with_history_limit; history is a sequence of <<time, level>>
with_history_limit(initial, limit) ==
    [current |-> initial, history |-> <<>>, max_history |-> limit]

\* self.history.drain(0..remove_count)
drain(history, remove_count) == SubSeq(history, remove_count + 1, Len(history))

\* Signal::update
update(sg, time, value) ==
    IF value # sg.current
    THEN LET trimmed == IF Len(sg.history) >= sg.max_history
                        THEN drain(sg.history, sg.max_history \div 4)
                        ELSE sg.history
         IN [sg EXCEPT !.history = Append(trimmed, <<time, value>>),
                       !.current = value]
    ELSE sg

\* the limits a caller passes to with_history_limit
HistoryLimits == 0 .. MaxHistoryLimit

\* a signal that is never updated
SignalFresh == signal = with_history_limit("Low", MaxHistoryLimit)

\* Signal::with_history_limit(name, Low, limit)
InitSignal == signal \in {with_history_limit("Low", limit) : limit \in HistoryLimits}

\* signal.update(time, value)
Update(time, value) == signal' = update(signal, time, value)

\* signal.clear_history()
ClearHistory == signal' = [signal EXCEPT !.history = <<>>]

(***************************************************************************)
(* Specifications                                                          *)
(***************************************************************************)
\* the scheduler before any call, for the specifications of the other parts
SimFresh ==
    /\ InitSim
    /\ config.max_time = 0

\* the scheduler with callers that never schedule in the past
InitSimSpec == InitSim /\ InitCycle /\ InitBus /\ ClockFresh /\ SysFresh
    /\ Cpu4004Fresh /\ Cpu4040Fresh /\ SignalFresh

NextSim ==
    \/ (\E gate \in GateCatalog : AddGate(gate))
       /\ SimWithinBounds /\ UNCHANGED <<fifo, cycleVars, busVars, clockVars, sysVars, partVars>>
    \/ (\E time \in 0 .. MaxTime, target \in StimulusTargets,
           value \in StimulusLevels : Schedule(time, target, value))
       /\ SimWithinBounds /\ UNCHANGED <<fifo, cycleVars, busVars, clockVars, sysVars, partVars>>
    \/ (\E delay \in 0 .. 1, target \in StimulusTargets,
           value \in StimulusLevels : ScheduleDelta(delay, target, value))
       /\ SimWithinBounds /\ UNCHANGED <<fifo, cycleVars, busVars, clockVars, sysVars, partVars>>
    \/ Step /\ SimWithinBounds /\ UNCHANGED <<fifo, cycleVars, busVars, clockVars, sysVars, partVars>>
    \/ RunUntil(MaxTime) /\ UNCHANGED <<fifo, cycleVars, busVars, clockVars, sysVars, partVars>>
    \/ RunUntilIteration
       /\ SimWithinBounds /\ UNCHANGED <<fifo, cycleVars, busVars, clockVars, sysVars, partVars>>
    \/ (\E count \in 1 .. MaxRunEvents : RunEvents(count))
       /\ UNCHANGED <<fifo, cycleVars, busVars, clockVars, sysVars, partVars>>
    \/ RunEventsIteration
       /\ SimWithinBounds /\ UNCHANGED <<fifo, cycleVars, busVars, clockVars, sysVars, partVars>>
    \/ Reset /\ UNCHANGED <<fifo, cycleVars, busVars, clockVars, sysVars, partVars>>

SpecSim == InitSimSpec /\ [][NextSim]_vars

\* the scheduler with callers that may also schedule in the past
NextSimPast ==
    \/ NextSim
    \/ (\E time \in 0 .. MaxTime, target \in StimulusTargets,
           value \in StimulusLevels : SchedulePast(time, target, value))
       /\ SimWithinBounds /\ UNCHANGED <<fifo, cycleVars, busVars, clockVars, sysVars, partVars>>

SpecSimPast == InitSimSpec /\ [][NextSimPast]_vars

\* the scheduler without gates, recording the insertion order of the events
NextSimOrder ==
    \/ \E time \in 0 .. MaxTime, target \in StimulusTargets,
          value \in StimulusLevels :
           /\ Schedule(time, target, value)
           /\ FifoAfterSchedule(time, target, value)
           /\ Len(events') <= MaxSameTime
           /\ UNCHANGED <<cycleVars, busVars, clockVars, sysVars, partVars>>
    \/ Step /\ FifoAfterStep /\ UNCHANGED <<cycleVars, busVars, clockVars, sysVars, partVars>>
    \/ Reset /\ fifo' = <<>> /\ UNCHANGED <<cycleVars, busVars, clockVars, sysVars, partVars>>

SpecSimOrder == InitSimSpec /\ [][NextSimOrder]_vars

\* the bus cycle state machine
InitCycleSpec == SimFresh /\ InitCycle /\ InitBus /\ ClockFresh /\ SysFresh
    /\ Cpu4004Fresh /\ Cpu4040Fresh /\ SignalFresh

NextCycle ==
    \/ Advance /\ UNCHANGED <<simVars, busVars, clockVars, sysVars, partVars>>
    \/ SetTwoCycle /\ UNCHANGED <<simVars, busVars, clockVars, sysVars, partVars>>
    \/ Halt /\ UNCHANGED <<simVars, busVars, clockVars, sysVars, partVars>>
    \/ Resume /\ UNCHANGED <<simVars, busVars, clockVars, sysVars, partVars>>
    \/ InterruptAck /\ UNCHANGED <<simVars, busVars, clockVars, sysVars, partVars>>
    \/ CycleReset /\ UNCHANGED <<simVars, busVars, clockVars, sysVars, partVars>>
    \/ WriteState("Execute") /\ UNCHANGED <<simVars, busVars, clockVars, sysVars, partVars>>
    \/ (\E tc \in BOOLEAN, sc \in BOOLEAN : WriteFlags(tc, sc))
       /\ UNCHANGED <<simVars, busVars, clockVars, sysVars, partVars>>

SpecCycle == InitCycleSpec /\ [][NextCycle]_vars

\* the data bus
InitBusSpec == SimFresh /\ InitCycle /\ InitBus /\ ClockFresh /\ SysFresh
    /\ Cpu4004Fresh /\ Cpu4040Fresh /\ SignalFresh

NextBus ==
    \/ AddDriver /\ UNCHANGED <<simVars, cycleVars, clockVars, sysVars, partVars>>
    \/ (\E driver_id \in 0 .. MaxDrivers, value \in DriveValues :
           Drive(driver_id, value))
       /\ UNCHANGED <<simVars, cycleVars, clockVars, sysVars, partVars>>
    \/ (\E driver_id \in 0 .. MaxDrivers : Release(driver_id))
       /\ UNCHANGED <<simVars, cycleVars, clockVars, sysVars, partVars>>

SpecBus == InitBusSpec /\ [][NextBus]_vars

\* the two-phase clock in step mode
InitClockSpec == SimFresh /\ InitCycle /\ InitBus /\ InitClock /\ SysFresh
    /\ Cpu4004Fresh /\ Cpu4040Fresh /\ SignalFresh

NextClock ==
    \/ Tick /\ UNCHANGED <<simVars, cycleVars, busVars, sysVars, partVars>>
    \/ ClockReset /\ UNCHANGED <<simVars, cycleVars, busVars, sysVars, partVars>>

SpecClock == InitClockSpec /\ [][NextClock]_vars

\* the MCS-4 system with the programs of the examples; the ROM is loaded
\* once, before the first step
InitSysSpec == SimFresh /\ InitCycle /\ InitBus /\ ClockFresh /\ InitSys
    /\ Cpu4004Fresh /\ Cpu4040Fresh /\ SignalFresh

NextSys ==
    \/ sys_op = "new" /\ (\E data \in RomImages : LoadRom(data))
       /\ UNCHANGED <<simVars, cycleVars, busVars, clockVars, partVars>>
    \/ SysStep /\ sys.total_cycles < MaxSysCycles
       /\ UNCHANGED <<simVars, cycleVars, busVars, clockVars, partVars>>
    \/ RunCycles(1) /\ sys.total_cycles < MaxSysCycles
       /\ UNCHANGED <<simVars, cycleVars, busVars, clockVars, partVars>>
    \/ SysReset /\ UNCHANGED <<simVars, cycleVars, busVars, clockVars, partVars>>
    \/ (\E value \in DirectValues : WriteDirect(0, 0, 0, value))
       /\ UNCHANGED <<simVars, cycleVars, busVars, clockVars, partVars>>

SpecSys == InitSysSpec /\ [][NextSys]_vars

\* the minimal system with every one-byte program
InitSysBytesSpec ==
    SimFresh /\ InitCycle /\ InitBus /\ ClockFresh /\ InitSysMinimal
    /\ Cpu4004Fresh /\ Cpu4040Fresh /\ SignalFresh

NextSysBytes ==
    \/ sys_op = "new" /\ (\E data \in OneByteImages : LoadRom(data))
       /\ UNCHANGED <<simVars, cycleVars, busVars, clockVars, partVars>>
    \/ SysStep /\ sys.total_cycles < MaxByteCycles
       /\ UNCHANGED <<simVars, cycleVars, busVars, clockVars, partVars>>
    \/ RunCycles(1) /\ sys.total_cycles < MaxByteCycles
       /\ UNCHANGED <<simVars, cycleVars, busVars, clockVars, partVars>>
    \/ SysReset /\ UNCHANGED <<simVars, cycleVars, busVars, clockVars, partVars>>

SpecSysBytes == InitSysBytesSpec /\ [][NextSysBytes]_vars

\* the ALU alone: load, add, sub and the accumulator group
InitCpu4004Spec ==
    /\ SimFresh /\ InitCycle /\ InitBus /\ ClockFresh /\ SysFresh
    /\ InitCpu4004 /\ Cpu4040Fresh /\ SignalFresh

NextAlu ==
    \/ (\E value \in 0 .. 15 : AluLoad(value))
       /\ UNCHANGED <<simVars, cycleVars, busVars, clockVars, sysVars,
                      cpu4040Vars, signalVars>>
    \/ (\E value \in 0 .. 15 : AluAdd(value))
       /\ UNCHANGED <<simVars, cycleVars, busVars, clockVars, sysVars,
                      cpu4040Vars, signalVars>>
    \/ (\E value \in 0 .. 15 : AluSub(value))
       /\ UNCHANGED <<simVars, cycleVars, busVars, clockVars, sysVars,
                      cpu4040Vars, signalVars>>
    \/ (\E instr \in AccInstrs : Execute(instr))
       /\ UNCHANGED <<simVars, cycleVars, busVars, clockVars, sysVars,
                      cpu4040Vars, signalVars>>

SpecAlu == InitCpu4004Spec /\ [][NextAlu]_vars

\* the register file alone: set_pc, call and ret
NextRegisters ==
    \/ (\E addr \in CallAddrs : SetPc(addr))
       /\ UNCHANGED <<simVars, cycleVars, busVars, clockVars, sysVars,
                      cpu4040Vars, signalVars>>
    \/ (\E addr \in CallAddrs : Call(addr)) /\ Len(call_trail.pcs) < MaxCallDepth
       /\ UNCHANGED <<simVars, cycleVars, busVars, clockVars, sysVars,
                      cpu4040Vars, signalVars>>
    \/ Ret
       /\ UNCHANGED <<simVars, cycleVars, busVars, clockVars, sysVars,
                      cpu4040Vars, signalVars>>

SpecRegisters == InitCpu4004Spec /\ [][NextRegisters]_vars

\* the decoder alone: decode_first and decode_second
NextDecoder ==
    \/ (\E byte \in 0 .. 255 : DecodeFirst(byte))
       /\ UNCHANGED <<simVars, cycleVars, busVars, clockVars, sysVars,
                      cpu4040Vars, signalVars>>
    \/ (\E byte \in SecondBytes : DecodeSecond(byte))
       /\ UNCHANGED <<simVars, cycleVars, busVars, clockVars, sysVars,
                      cpu4040Vars, signalVars>>

SpecDecoder == InitCpu4004Spec /\ [][NextDecoder]_vars

\* the 4040 call stack alone: push and pop
InitCpu4040Spec ==
    /\ SimFresh /\ InitCycle /\ InitBus /\ ClockFresh /\ SysFresh
    /\ Cpu4004Fresh /\ InitCpu4040 /\ SignalFresh

NextCallStack ==
    \/ (\E addr \in PushAddrs : StackPush(addr))
       /\ UNCHANGED <<simVars, cycleVars, busVars, clockVars, sysVars,
                      cpu4004Vars, signalVars>>
    \/ StackPop
       /\ UNCHANGED <<simVars, cycleVars, busVars, clockVars, sysVars,
                      cpu4004Vars, signalVars>>

SpecCallStack == InitCpu4040Spec /\ [][NextCallStack]_vars

\* the 4040 register file alone: set, set_pair, db0 and db1
NextRegFile ==
    \/ (\E r \in SetRegs, val \in SetValues : RegSet(r, val))
       /\ UNCHANGED <<simVars, cycleVars, busVars, clockVars, sysVars,
                      cpu4004Vars, signalVars>>
    \/ (\E p \in SetPairs : RegSetPair(p, 10, 5))
       /\ UNCHANGED <<simVars, cycleVars, busVars, clockVars, sysVars,
                      cpu4004Vars, signalVars>>
    \/ Db0
       /\ UNCHANGED <<simVars, cycleVars, busVars, clockVars, sysVars,
                      cpu4004Vars, signalVars>>
    \/ Db1
       /\ UNCHANGED <<simVars, cycleVars, busVars, clockVars, sysVars,
                      cpu4004Vars, signalVars>>

SpecRegFile == InitCpu4040Spec /\ [][NextRegFile]_vars

\* the 4040 core: interrupts, halt and step
NextI4040 ==
    \/ Cpu4040Step /\ Len(pushed) < MaxServices
       /\ UNCHANGED <<simVars, cycleVars, busVars, clockVars, sysVars,
                      cpu4004Vars, signalVars>>
    \/ (\E addr \in IntrPcs : SetPc4040(addr))
       /\ UNCHANGED <<simVars, cycleVars, busVars, clockVars, sysVars,
                      cpu4004Vars, signalVars>>
    \/ Ein
       /\ UNCHANGED <<simVars, cycleVars, busVars, clockVars, sysVars,
                      cpu4004Vars, signalVars>>
    \/ Din
       /\ UNCHANGED <<simVars, cycleVars, busVars, clockVars, sysVars,
                      cpu4004Vars, signalVars>>
    \/ Request
       /\ UNCHANGED <<simVars, cycleVars, busVars, clockVars, sysVars,
                      cpu4004Vars, signalVars>>
    \/ Hlt
       /\ UNCHANGED <<simVars, cycleVars, busVars, clockVars, sysVars,
                      cpu4004Vars, signalVars>>
    \/ Cpu4040Resume
       /\ UNCHANGED <<simVars, cycleVars, busVars, clockVars, sysVars,
                      cpu4004Vars, signalVars>>
    \/ BbsRestore
       /\ UNCHANGED <<simVars, cycleVars, busVars, clockVars, sysVars,
                      cpu4004Vars, signalVars>>

SpecI4040 == InitCpu4040Spec /\ [][NextI4040]_vars

\* a Signal with a history limit, updated by its owner
InitSignalSpec ==
    /\ SimFresh /\ InitCycle /\ InitBus /\ ClockFresh /\ SysFresh
    /\ Cpu4004Fresh /\ Cpu4040Fresh /\ InitSignal

NextSignal ==
    \/ (\E time \in 0 .. MaxTime, value \in StimulusLevels : Update(time, value))
       /\ Len(signal.history) < MaxRecorded
       /\ UNCHANGED <<simVars, cycleVars, busVars, clockVars, sysVars,
                      cpu4004Vars, cpu4040Vars>>
    \/ ClearHistory
       /\ UNCHANGED <<simVars, cycleVars, busVars, clockVars, sysVars,
                      cpu4004Vars, cpu4040Vars>>

SpecSignal == InitSignalSpec /\ [][NextSignal]_vars

\* the minimal system under a debugger: breakpoints and budgeted runs
NextBreak ==
    \/ sys_op = "new" /\ (\E data \in BreakImages : LoadRom(data))
       /\ UNCHANGED <<simVars, cycleVars, busVars, clockVars, partVars>>
    \/ (\E addr \in BreakAddrs : AddBreakpoint(addr))
       /\ UNCHANGED <<simVars, cycleVars, busVars, clockVars, partVars>>
    \/ (\E addr \in BreakAddrs : RemoveBreakpoint(addr))
       /\ UNCHANGED <<simVars, cycleVars, busVars, clockVars, partVars>>
    \/ ClearBreakpoints
       /\ UNCHANGED <<simVars, cycleVars, busVars, clockVars, partVars>>
    \/ sys.total_cycles < MaxBreakCycles
       /\ (\E max_cycles \in BreakLimits : RunUntilBreakpoint(max_cycles))
       /\ UNCHANGED <<simVars, cycleVars, busVars, clockVars, partVars>>
    \/ SysStep /\ sys.total_cycles < MaxBreakCycles
       /\ UNCHANGED <<simVars, cycleVars, busVars, clockVars, partVars>>
    \/ SysReset /\ UNCHANGED <<simVars, cycleVars, busVars, clockVars, partVars>>

SpecBreak == InitSysBytesSpec /\ [][NextBreak]_vars

\* the minimal and the standard system whose ROM is loaded piece by piece
NextLoad ==
    \/ (\E address \in LoadAddrs, data \in LoadData : LoadRomAt(address, data))
       /\ UNCHANGED <<simVars, cycleVars, busVars, clockVars, partVars>>
    \/ (\E data \in {JunImage} : LoadRom(data))
       /\ UNCHANGED <<simVars, cycleVars, busVars, clockVars, partVars>>

SpecLoad == InitSysSpec /\ [][NextLoad]_vars

\* the scheduler with a combinational netlist that starts consistent
InitSimCombSpec == InitSimComb /\ InitCycle /\ InitBus /\ ClockFresh /\ SysFresh
    /\ Cpu4004Fresh /\ Cpu4040Fresh /\ SignalFresh

NextSimComb ==
    \/ (\E time \in 0 .. MaxTime, target \in StimulusTargets,
           value \in StimulusLevels : Schedule(time, target, value))
       /\ SimWithinBounds /\ UNCHANGED <<fifo, cycleVars, busVars, clockVars, sysVars, partVars>>
    \/ Step /\ SimWithinBounds /\ UNCHANGED <<fifo, cycleVars, busVars, clockVars, sysVars, partVars>>
    \/ RunUntil(MaxTime) /\ UNCHANGED <<fifo, cycleVars, busVars, clockVars, sysVars, partVars>>
    \/ RunUntilIteration
       /\ SimWithinBounds /\ UNCHANGED <<fifo, cycleVars, busVars, clockVars, sysVars, partVars>>

SpecSimComb == InitSimCombSpec /\ [][NextSimComb]_vars

\* the standard and the maximal system with the programs that leave page 0
InitPagesSpec == SimFresh /\ InitCycle /\ InitBus /\ ClockFresh /\ InitSysBanks
    /\ Cpu4004Fresh /\ Cpu4040Fresh /\ SignalFresh

NextPages ==
    \/ sys_op = "new" /\ (\E data \in PageImages : LoadRom(data))
       /\ UNCHANGED <<simVars, cycleVars, busVars, clockVars, partVars>>
    \/ SysStep /\ sys_op # "new" /\ sys.total_cycles < MaxSysCycles
       /\ UNCHANGED <<simVars, cycleVars, busVars, clockVars, partVars>>
    \/ SysReset
       /\ UNCHANGED <<simVars, cycleVars, busVars, clockVars, partVars>>
    \/ (\E value \in DirectValues : WriteDirect(1, 0, 0, value))
       /\ UNCHANGED <<simVars, cycleVars, busVars, clockVars, partVars>>

SpecPages == InitPagesSpec /\ [][NextPages]_vars

\* the bus cycle state machine driven through its methods only
NextCycleCalls ==
    \/ Advance /\ UNCHANGED <<simVars, busVars, clockVars, sysVars, partVars>>
    \/ SetTwoCycle /\ UNCHANGED <<simVars, busVars, clockVars, sysVars, partVars>>
    \/ Halt /\ UNCHANGED <<simVars, busVars, clockVars, sysVars, partVars>>
    \/ Resume /\ UNCHANGED <<simVars, busVars, clockVars, sysVars, partVars>>
    \/ InterruptAck /\ UNCHANGED <<simVars, busVars, clockVars, sysVars, partVars>>
    \/ CycleReset /\ UNCHANGED <<simVars, busVars, clockVars, sysVars, partVars>>

SpecCycleCalls == InitCycleSpec /\ [][NextCycleCalls]_vars

\* the clock in step mode: the caller goes on calling tick()
InitClockStepSpec == SimFresh /\ InitCycle /\ InitBus /\ InitClockStep /\ SysFresh
    /\ Cpu4004Fresh /\ Cpu4040Fresh /\ SignalFresh

NextClockStep ==
    \/ Tick /\ UNCHANGED <<simVars, cycleVars, busVars, sysVars, partVars>>

SpecClockStep ==
    InitClockStepSpec /\ [][NextClockStep]_vars /\ WF_vars(NextClockStep)

(***************************************************************************)
(* Claims about the scheduler                                              *)
(***************************************************************************)

\* C1: With callers that never schedule in the past, the timestamps that
\* successive step() calls return never decrease, and time() equals the
\* timestamp of the last event that step() took from the queue.
C1_MonotoneTime ==
    [][ /\ (last_some # None /\ last_some' # None
              => last_some'[1] >= last_some[1])
        /\ (last_event' # None => current_time' = last_event'[1]) ]_vars

\* step() has returned the largest scheduled time while events are pending
C1_Witness ==
    /\ last_some = Some(MaxTime)
    /\ last_event = Some(MaxTime)
    /\ events # <<>>
    /\ signals[0] = "High"

\* the first event of seq that carries timestamp t
RECURSIVE FirstAtTime(_, _)
FirstAtTime(seq, t) ==
    IF Head(seq).time = t THEN Head(seq) ELSE FirstAtTime(Tail(seq), t)

\* C2: Among the pending events with one timestamp, step() applies the one
\* that was inserted first (stable tie-break by insertion sequence).
C2_InsertionOrder ==
    [][ (Step /\ events # <<>>)
          => events[1] = FirstAtTime(fifo, events[1].time) ]_vars

\* the number of events in seq that gate gate_id scheduled
CountFrom(seq, gate_id) ==
    Cardinality({k \in 1 .. Len(seq) : seq[k].source = GateSource(gate_id)})

C4_PastScheduleRejected ==
    [][ /\ (\E time \in 0 .. MaxTime, target \in StimulusTargets,
               value \in StimulusLevels : SchedulePast(time, target, value))
           => events' = events
        /\ (Reset \/ current_time' >= current_time) ]_vars

\* C5: The scheduler applies at most max_delta_cycles zero-delay gate events
\* at one timestamp, so that the driver loops come to an end.
C5_DeltaCycleBound == delta_count <= config.max_delta_cycles

\* C6: With max_time > 0 the current time never exceeds max_time.
C6_MaxTimeBound == config.max_time > 0 => current_time <= config.max_time

(***************************************************************************)
(* Claims about CycleState                                                 *)
(***************************************************************************)
PhaseOrder == <<"A1", "A2", "A3", "M1", "M2", "X1", "X2", "X3">>

PhaseSuccessor(p) ==
    LET i == CHOOSE k \in 1 .. Len(PhaseOrder) : PhaseOrder[k] = p
    IN PhaseOrder[(i % Len(PhaseOrder)) + 1]

\* C7: Every advance() moves the phase to its successor in the cyclic order
\* A1, A2, A3, M1, M2, X1, X2, X3, A1; cycle_count grows by one on the
\* rollover from X3 to A1 and is unchanged otherwise, in every machine state.
C7_PhaseOrder ==
    [][ cycle_op' = "advance" =>
          /\ phase' = PhaseSuccessor(phase)
          /\ cycle_count' = cycle_count + (IF phase = "X3" THEN 1 ELSE 0) ]_vars

\* a rollover has been counted while the machine is halted
C7_Witness ==
    /\ cycle_op = "advance"
    /\ phase = "A1"
    /\ state = "Halted"
    /\ cycle_count = 2

\* C8: advance() changes the machine state, instruction_count and the flags
\* only on the rollover from X3 to A1, and then by the table of the machine
\* states.
C8_StateTable ==
    [][ cycle_op' = "advance" =>
          IF phase # "X3"
          THEN UNCHANGED <<state, instruction_count, two_cycle, second_cycle>>
          ELSE CASE state = "Fetch1" /\ ~two_cycle ->
                        /\ state' = "Fetch1"
                        /\ instruction_count' = instruction_count + 1
                        /\ UNCHANGED <<two_cycle, second_cycle>>
                 [] state = "Fetch1" /\ two_cycle ->
                        /\ state' = "Fetch2"
                        /\ second_cycle' = TRUE
                        /\ UNCHANGED <<instruction_count, two_cycle>>
                 [] state = "Fetch2" ->
                        /\ state' = "Fetch1"
                        /\ instruction_count' = instruction_count + 1
                        /\ two_cycle' = FALSE
                        /\ second_cycle' = FALSE
                 [] state = "Execute" ->
                        /\ state' = "Fetch1"
                        /\ UNCHANGED <<instruction_count, two_cycle, second_cycle>>
                 [] state \in {"Halted", "InterruptAck"} ->
                        UNCHANGED <<state, instruction_count, two_cycle,
                                    second_cycle>> ]_vars

\* the second machine cycle of a two-cycle instruction has ended
C8_Witness ==
    /\ cycle_op = "advance"
    /\ phase = "A1"
    /\ state = "Fetch1"
    /\ cycle_count = 2
    /\ instruction_count = 1
    /\ ~two_cycle
    /\ ~second_cycle

(***************************************************************************)
(* Claims about DataBus                                                    *)
(***************************************************************************)
ActiveDrivers == {k \in 1 .. Len(drivers) : drivers[k].active}

AllZ == \A i \in Lines : lines[i] = "Z"

\* C9: The four lines are the resolution of the drivers: all Z with no active
\* driver, all X when two active drivers hold different nibbles, and
\* otherwise the bits of the nibble they agree on, LSB on line 0.
C9_LinesAreResolution ==
    IF ActiveDrivers = {} THEN AllZ
    ELSE IF \E j, k \in ActiveDrivers : drivers[j].value # drivers[k].value
    THEN /\ \A i \in Lines : lines[i] = "X"
         /\ has_contention
         /\ ~is_valid
    ELSE \A k \in ActiveDrivers :
            /\ \A i \in Lines :
                   lines[i] = IF Bit(drivers[k].value, i) = 1 THEN "High" ELSE "Low"
            /\ Read = drivers[k].value
            /\ is_valid
            /\ ~has_contention

\* two active drivers agree after a third, holding another nibble, let go
C9_Witness ==
    /\ \E j, k \in ActiveDrivers : j # k /\ drivers[j].value = 10
    /\ \E k \in 1 .. Len(drivers) :
           ~drivers[k].active /\ drivers[k].value = 5
    /\ Read = 10
    /\ ~has_contention

\* C10 as stated: the bus is all-Z, or all lines are defined and at most one
\* driver is active, or some line is X.
C10_AtMostOneDriver ==
    \/ AllZ
    \/ is_valid /\ Cardinality(ActiveDrivers) <= 1
    \/ has_contention

\* C10: The bus is all-Z, or all lines are defined and the active drivers all
\* hold the same nibble, or some line is X.
C10_ActiveDriversAgree ==
    \/ AllZ
    \/ /\ is_valid
       /\ ActiveDrivers # {}
       /\ \A j, k \in ActiveDrivers : drivers[j].value = drivers[k].value
    \/ has_contention

\* two active drivers hold the same nibble and every line is defined
C10_Witness ==
    /\ Cardinality(ActiveDrivers) >= 2
    /\ is_valid

(***************************************************************************)
(* Claims about the two-phase clock                                        *)
(***************************************************************************)
\* C11: For every ClockConfig, after any number of tick() and reset() calls,
\* PHI1 and PHI2 are never both High.
C11_NonOverlap == ~(phi1_high /\ phi2_high)

\* the edge that follows edge e in the order C12 states, None included
NextEdgeWithNone(e) ==
    CASE e = "Start" -> "Phi1Rising"
      [] e = "Phi1Rising" -> "Phi1Falling"
      [] e = "Phi1Falling" -> "Phi2Rising"
      [] e = "Phi2Rising" -> "Phi2Falling"
      [] e = "Phi2Falling" -> "None"
      [] OTHER -> "Phi1Rising"

\* the edge that follows edge e in the order of the four edges
NextEdge(e) ==
    CASE e = "Start" -> "Phi1Rising"
      [] e = "Phi1Rising" -> "Phi1Falling"
      [] e = "Phi1Falling" -> "Phi2Rising"
      [] e = "Phi2Rising" -> "Phi2Falling"
      [] OTHER -> "Phi1Rising"

\* C12 as stated: with the default configuration successive tick() calls
\* return Phi1Rising, Phi1Falling, Phi2Rising, Phi2Falling, None, repeating,
\* and the cycle counter increases by one exactly on the tick that returns
\* Phi2Falling.
C12_EdgeOrderWithNone ==
    [][(Tick /\ clock.config = ClockConfigDefault) =>
         /\ clock_edge' = NextEdgeWithNone(clock_edge)
         /\ clock'.cycle_count =
                clock.cycle_count + (IF clock_edge' = "Phi2Falling" THEN 1 ELSE 0)
      ]_vars

\* C12: With the default configuration successive tick() calls return
\* Phi1Rising, Phi1Falling, Phi2Rising, Phi2Falling, repeating, None is never
\* returned, and the cycle counter increases by one exactly on the tick that
\* returns Phi2Falling.
C12_EdgeOrder ==
    [][(Tick /\ clock.config = ClockConfigDefault) =>
         /\ clock_edge' = NextEdge(clock_edge)
         /\ clock'.cycle_count =
                clock.cycle_count + (IF clock_edge' = "Phi2Falling" THEN 1 ELSE 0)
      ]_vars

\* the default clock has finished a cycle and started the next one
C12_Witness ==
    /\ clock.config = ClockConfigDefault
    /\ clock.cycle_count = 1
    /\ clock_edge = "Phi1Rising"

(***************************************************************************)
(* Claims about the MCS-4 system                                           *)
(***************************************************************************)
\* C13: In every reachable state of the system, after reset() too, SYNC is
\* High exactly when the next phase to be stepped is A2.
C13_SyncIffA2 == (sys.control.sync = "High") <=> (sys.cycle.phase = "A2")

\* a later machine cycle of a loaded system has SYNC High before A2, also
\* after a reset
C13_Witness ==
    /\ sys.control.sync = "High"
    /\ sys.cycle.phase = "A2"
    /\ sys.total_cycles > sys.cycle.cycle_count
    /\ sys.cycle.cycle_count >= 1
    /\ sys.rom[1].rom # <<>>

\* a machine cycle has just ended: the next phase to be stepped is A1
AtCycleEnd(n) == sys.cycle.phase = "A1" /\ sys.cycle.cycle_count = n

AfterSomeCycle == sys.cycle.phase = "A1" /\ sys.cycle.cycle_count >= 1

\* the ROM chips hold exactly the image data
ProgramIs(data) ==
    \A i \in 1 .. Len(sys.rom) :
        sys.rom[i].rom = IF 256 * (i - 1) < Len(data)
                         THEN I4001Load(I4001New(0), Chunk(data, i - 1)).rom
                         ELSE <<>>

\* the address of the last fetch, as the ROM chips and CM-ROM latched it
FetchAddress == cm_rom(sys.control) * 256 + sys.rom[1].address

\* the byte that ROM chip 0 holds at the address latched in the last fetch
FetchedByte == RomByte(sys.rom[1], sys.rom[1].address)

\* the first byte of JCN, FIM, JUN, JMS, ISZ
IsTwoByteFirst(b) ==
    \/ b \div 16 \in {1, 4, 5, 7}
    \/ b \div 16 = 2 /\ b % 2 = 0

\* JIN and BBL
IsOneByteJump(b) ==
    \/ b \div 16 = 3 /\ b % 2 = 1
    \/ b \div 16 = 12

C15_TwoByteFirstCycle ==
    (AtCycleEnd(1) /\ IsTwoByteFirst(RomByte(sys.rom[1], 0))) =>
        /\ pc(sys.cpu.registers) = 1
        /\ sys.cpu.cycle.state = "Fetch2"
        /\ sys.cpu.cycle.second_cycle

\* C16: With the program [0x41, 0x23] (JUN 0x123) the program counter is
\* 0x123 after the two machine cycles of the instruction.
C16_JunTarget ==
    (AtCycleEnd(2) /\ ProgramIs(JunImage)) =>
        pc(sys.cpu.registers) = 1 * 256 + 2 * 16 + 3

\* C17: With JMS 0x010 at 0x000 and LDM 7, BBL 0 at 0x010, after the four
\* machine cycles the program counter is 0x002, the accumulator is 0 and the
\* stack pointer is back at 0.
C17_JmsBblReturns ==
    (AtCycleEnd(4) /\ ProgramIs(JmsImage)) =>
        /\ pc(sys.cpu.registers) = 2
        /\ accumulator(sys.cpu.alu) = 0
        /\ sys.cpu.registers.sp = 0

\* C18: After the machine cycle of JIN p at address a the program counter is
\* (a & 0xF00) | pair_value(p).
C18_JinTarget ==
    \A p \in 0 .. 7 :
        (AfterSomeCycle /\ sys.cpu.decoder.instruction = Some(Instr("Jin", p, 0))) =>
            pc(sys.cpu.registers) =
                (FetchAddress \div 256) * 256 + get_pair(sys.cpu.registers, p)

\* the steps of a machine cycle were the last calls
Stepped == sys_op \in {"step", "run_cycles"}

\* C19: At the end of the machine cycle of WRM the nibble of every selected
\* 4002 at (selected_register, selected_char) equals the accumulator.
C19_WrmStoresAcc ==
    (/\ AfterSomeCycle
     /\ Stepped
     /\ sys.cpu.decoder.instruction = Some(Instr("Wrm", 0, 0))) =>
        \A i \in 1 .. Len(sys.ram) :
            sys.ram[i].selected =>
                RamNibble(sys.ram[i], sys.ram[i].selected_register,
                          sys.ram[i].selected_char) = accumulator(sys.cpu.alu)

\* C20: At the end of the machine cycle of RDM the accumulator equals the
\* nibble of RAM chip 0 at (selected_register, selected_char), so that
\* write_direct(0, 0, v) followed by RDM leaves v in the accumulator.
C20_RdmLoadsNibble ==
    (/\ AfterSomeCycle
     /\ Stepped
     /\ sys.cpu.decoder.instruction = Some(Instr("Rdm", 0, 0))) =>
        accumulator(sys.cpu.alu) =
            RamNibble(sys.ram[1], sys.ram[1].selected_register,
                      sys.ram[1].selected_char)

\* C21: At the end of the machine cycle of SRC p every 4002 whose chip_id is
\* the chip number published by the CPU (the high nibble of pair p) has
\* latched the low nibble of pair p as its character index.
C21_SrcLatched ==
    \A p \in 0 .. 7 :
        (/\ AfterSomeCycle
         /\ Stepped
         /\ sys.cpu.decoder.instruction = Some(Instr("Src", p, 0))) =>
            \A i \in 1 .. Len(sys.ram) :
                sys.ram[i].chip_id = (get_pair(sys.cpu.registers, p) \div 16) % 4 =>
                    sys.ram[i].selected_char = get_pair(sys.cpu.registers, p) % 16

(***************************************************************************)
(* Claims about the parts of the 4004                                      *)
(***************************************************************************)
\* C22: In the 4004 register file call(a) sets the program counter to a and
\* a ret() that follows restores the program counter the call replaced; up
\* to three nested calls followed by as many rets restore the program
\* counters in LIFO order and bring the stack pointer back to where it
\* started; a fourth nested call fails in no way and its return address
\* takes the slot of the oldest one (three slots, pointer modulo 3).
C22_CallRetLifo ==
    LET regs == cpu4004.registers
        pcs == call_trail.pcs
    IN /\ regs.sp = (call_trail.base + Len(pcs)) % 3
       /\ \A i \in 1 .. Len(pcs) :
              call_trail.deepest < i + 3 =>
                  regs.stack[(call_trail.base + i - 1) % 3] = pcs[i]
       /\ Len(pcs) = 4 => regs.stack[call_trail.base % 3] = pcs[4]
       /\ cpu4004_op.op = "call" => pc(regs) = cpu4004_op.arg % 4096
       /\ (/\ cpu4004_op.op = "ret"
           /\ call_trail.popped # None
           /\ call_trail.deepest <= 3) =>
              pc(regs) = call_trail.popped[1]

\* three nested calls and three rets have brought the stack pointer and the
\* program counter back
C22_Witness ==
    /\ cpu4004_op.op = "ret"
    /\ call_trail.pcs = <<>>
    /\ call_trail.deepest = 3
    /\ call_trail.popped = Some(2 * 256)
    /\ pc(cpu4004.registers) = 2 * 256
    /\ cpu4004.registers.sp = call_trail.base

\* C23: For every accumulator, operand nibble r and carry-in, ADD leaves
\* the low four bits of acc + r + carry in the accumulator and bit 4 of
\* that sum in the carry flag, SUB does the same with acc + (15 - r) + carry,
\* and the accumulator stays within 0..15.
C23_AddSub ==
    LET sum == alu_before.acc + cpu4004_op.arg + CarryBit(alu_before)
        diff == alu_before.acc + (15 - cpu4004_op.arg) + CarryBit(alu_before)
    IN /\ cpu4004.alu.acc \in 0 .. 15
       /\ cpu4004_op.op = "add" =>
              /\ cpu4004.alu.acc = sum % 16
              /\ cpu4004.alu.carry = ((sum \div 16) % 2 = 1)
       /\ cpu4004_op.op = "sub" =>
              /\ cpu4004.alu.acc = diff % 16
              /\ cpu4004.alu.carry = ((diff \div 16) % 2 = 1)

\* 9 + 8 with the carry set has left 2 and a carry
C23_Witness ==
    /\ cpu4004_op.op = "add"
    /\ cpu4004_op.arg = 8
    /\ alu_before.acc = 9
    /\ alu_before.carry
    /\ cpu4004.alu.acc = 2
    /\ cpu4004.alu.carry

\* C24 as stated: TCS leaves 9 in the accumulator if the carry flag was
\* set and 10 otherwise, and clears the carry flag.
C24_TcsNineIfCarry ==
    (cpu4004_op.op = "execute" /\ cpu4004_op.arg.op = "Tcs") =>
        /\ cpu4004.alu.acc = IF alu_before.carry THEN 9 ELSE 10
        /\ ~cpu4004.alu.carry

\* C24, amended: TCS leaves 10 in the accumulator if the carry flag was set
\* and 9 otherwise, and clears the carry flag.
C24_TcsTenIfCarry ==
    (cpu4004_op.op = "execute" /\ cpu4004_op.arg.op = "Tcs") =>
        /\ cpu4004.alu.acc = IF alu_before.carry THEN 10 ELSE 9
        /\ ~cpu4004.alu.carry

\* TCS was executed with the carry flag set
C24_Witness ==
    /\ cpu4004_op.op = "execute"
    /\ cpu4004_op.arg.op = "Tcs"
    /\ alu_before.carry
    /\ cpu4004.alu.acc = 10
    /\ ~cpu4004.alu.carry

\* C25: For every byte b, decode_first(b) marks the instruction as two-byte
\* and yields no instruction exactly when b is a first byte of JCN, FIM,
\* JUN, JMS or ISZ; for every other byte it yields an instruction of length
\* 1 at once; decode_second after such a first byte yields an instruction of
\* length 2 whose operands are the stored OPA (the pair number OPA / 2 for
\* FIM) and the second byte.
C25_DecodeLengths ==
    LET d == cpu4004.decoder
    IN /\ cpu4004_op.op = "decode_first" =>
              /\ d.two_byte <=> IsTwoByteFirst(cpu4004_op.arg)
              /\ needs_second_byte(d) <=> IsTwoByteFirst(cpu4004_op.arg)
              /\ (get_instruction(d) = None) <=> IsTwoByteFirst(cpu4004_op.arg)
              /\ get_instruction(d) # None => length(get_instruction(d)[1]) = 1
       /\ (cpu4004_op.op = "decode_second" /\ d.two_byte) =>
              /\ get_instruction(d) # None
              /\ length(get_instruction(d)[1]) = 2
              /\ get_instruction(d)[1].a =
                     IF d.opr = 2 THEN d.opa \div 2 ELSE d.opa
              /\ get_instruction(d)[1].b = cpu4004_op.arg

\* decode_first(0x41) and decode_second(0x23) have produced JUN 0x123
C25_Witness ==
    /\ cpu4004_op.op = "decode_second"
    /\ cpu4004_op.arg = 2 * 16 + 3
    /\ cpu4004.decoder.two_byte
    /\ get_instruction(cpu4004.decoder) = Some(Instr("Jun", 1, 2 * 16 + 3))

(***************************************************************************)
(* Claims about the parts of the 4040                                      *)
(***************************************************************************)
\* C26: The depth of the 4040 call stack stays within 0..7; push on a full
\* stack fails with stack_overflow and pop on an empty stack fails with
\* stack_underflow, both leaving the depth and the entries as they were; a
\* pop that succeeds returns the address pushed last and not yet popped,
\* masked to 12 bits.
C26_PushPop ==
    [][ /\ depth(cpu4040'.stack) \in 0 .. 7
        /\ depth(cpu4040'.stack) = Len(pushed')
        /\ cpu4040_op'.op = "push" =>
               IF depth(cpu4040.stack) = 7
               THEN /\ cpu4040_op'.result.tag = "Err"
                    /\ cpu4040_op'.result.value = "stack_overflow"
                    /\ cpu4040'.stack = cpu4040.stack
               ELSE /\ cpu4040_op'.result.tag = "Ok"
                    /\ depth(cpu4040'.stack) = depth(cpu4040.stack) + 1
        /\ cpu4040_op'.op = "pop" =>
               IF depth(cpu4040.stack) = 0
               THEN /\ cpu4040_op'.result.tag = "Err"
                    /\ cpu4040_op'.result.value = "stack_underflow"
                    /\ cpu4040'.stack = cpu4040.stack
               ELSE /\ cpu4040_op'.result.tag = "Ok"
                    /\ cpu4040_op'.result.value = pushed[Len(pushed)] % 4096
                    /\ depth(cpu4040'.stack) = depth(cpu4040.stack) - 1
      ]_vars

\* a pop from the full stack has returned 0x1234 masked to 0x234
C26_Witness ==
    /\ cpu4040_op.op = "pop"
    /\ cpu4040_op.result.tag = "Ok"
    /\ cpu4040_op.result.value = 2 * 256 + 3 * 16 + 4
    /\ depth(cpu4040.stack) = 6

\* C27: A step() of a CPU that is not halted services an interrupt exactly
\* when enabled and pending are both true; after servicing, whatever the
\* depth of the call stack was, the program counter from before the
\* interrupt is on top of the call stack, pc is 0x003, SRC is saved and
\* enabled and pending are both false.
C27_InterruptService ==
    [][ (cpu4040_op'.op = "step" /\ ~cpu4040.halted) =>
           IF cpu4040.intr.enabled /\ cpu4040.intr.pending
           THEN /\ peek(cpu4040'.stack) = Some(cpu4040.pc % 4096)
                /\ cpu4040'.pc = 3
                /\ cpu4040'.intr.src_save = current_src(cpu4040)
                /\ ~cpu4040'.intr.enabled
                /\ ~cpu4040'.intr.pending
           ELSE cpu4040' = cpu4040
      ]_vars

\* C28: BBS after a serviced interrupt returns from the handler: the
\* program counter pushed when the interrupt was serviced is popped back
\* into pc, the depth of the call stack is what it was before the interrupt
\* and the SRC value saved at service time is handed back.
C28_BbsReturns ==
    (/\ cpu4040_op.op = "bbs_restore"
     /\ pushed # <<>>
     /\ Len(pushed) <= 7) =>
        /\ cpu4040.pc = pushed[Len(pushed)] % 4096
        /\ depth(cpu4040.stack) = Len(pushed) - 1
        /\ cpu4040_op.result = Some(cpu4040.intr.src_save)

\* C29: Once halted, step() changes neither pc, stack, registers nor the
\* interrupt state unless an enabled interrupt request is pending, and a
\* step() with such a request pending services it and clears halted.
C29_HaltAndWake ==
    [][ (cpu4040_op'.op = "step" /\ cpu4040.halted) =>
           IF cpu4040.intr.enabled /\ cpu4040.intr.pending
           THEN /\ ~cpu4040'.halted
                /\ cpu4040'.pc = 3
                /\ ~cpu4040'.intr.pending
           ELSE cpu4040' = cpu4040
      ]_vars

\* the physical register that logical register r names in bank b
Physical(b, r) == IF r < 8 THEN r + 16 * b ELSE r

\* C30: Under any sequence of set, set_pair, db0 and db1 a write to logical
\* R0..R7 changes only the physical register of the selected bank (0..7 in
\* bank 0, 16..23 in bank 1), so each bank reads back what was last written
\* in it; a write to R8..R15 changes one physical register that both banks
\* read; db0 and db1 change no register value.
C30_BankFrame ==
    [][ /\ \A r \in 0 .. 15 :
               get(cpu4040'.regs, r) =
                   IF r < 8 THEN bank_view'.banked[cpu4040'.regs.bank][r]
                   ELSE bank_view'.shared[r]
        /\ \A r \in 8 .. 15 :
               get(db0(cpu4040'.regs), r) = get(db1(cpu4040'.regs), r)
        /\ cpu4040_op'.op = "set" =>
               /\ cpu4040'.regs.bank = cpu4040.regs.bank
               /\ \A k \in 0 .. 23 :
                      cpu4040'.regs.regs[k] =
                          IF k = Physical(cpu4040.regs.bank, cpu4040_op'.arg[1])
                          THEN cpu4040_op'.arg[2] % 16
                          ELSE cpu4040.regs.regs[k]
        /\ cpu4040_op'.op = "set_pair" =>
               /\ cpu4040'.regs.bank = cpu4040.regs.bank
               /\ \A k \in 0 .. 23 :
                      (/\ k # Physical(cpu4040.regs.bank, 2 * cpu4040_op'.arg[1])
                       /\ k # Physical(cpu4040.regs.bank,
                                       2 * cpu4040_op'.arg[1] + 1)) =>
                          cpu4040'.regs.regs[k] = cpu4040.regs.regs[k]
        /\ cpu4040_op'.op \in {"db0", "db1"} =>
               /\ cpu4040'.regs.regs = cpu4040.regs.regs
               /\ cpu4040'.regs.bank = IF cpu4040_op'.op = "db0" THEN 0 ELSE 1
      ]_vars

\* R0 was written in both banks and bank 0 reads its own value again
C30_Witness ==
    /\ cpu4040_op.op = "db0"
    /\ cpu4040.regs.bank = 0
    /\ cpu4040.regs.regs[0] = 5
    /\ cpu4040.regs.regs[16] = 10
    /\ get(cpu4040.regs, 0) = 5
    /\ RegFileGetPair(db1(cpu4040.regs), 0)[1] = 10

(***************************************************************************)
(* Claims about Signal                                                     *)
(***************************************************************************)
\* C35: For every configured history limit, limits smaller than 4 included,
\* and after any sequence of update() calls, the number of recorded
\* transitions never exceeds the limit.
C35_HistoryBounded == Len(signal.history) <= signal.max_history

(***************************************************************************)
(* Claims about the system under a debugger                                *)
(***************************************************************************)
\* the steps from phase p to the next A1
StepsToA1(p) ==
    CASE p = "A1" -> 8 [] p = "A2" -> 7 [] p = "A3" -> 6 [] p = "M1" -> 5
      [] p = "M2" -> 4 [] p = "X1" -> 3 [] p = "X2" -> 2 [] p = "X3" -> 1

\* pc equals a registered breakpoint
AtBreakpoint(s) ==
    \E k \in 1 .. Len(s.breakpoints) : s.breakpoints[k] = s.cpu.registers.pc

\* stepping s through the next n A1 boundaries meets no breakpoint there
RECURSIVE NoBreakpointAtBoundaries(_, _)
NoBreakpointAtBoundaries(s, n) ==
    \/ n = 0
    \/ \E t \in {Steps(s, StepsToA1(s.cycle.phase))} :
          /\ ~AtBreakpoint(t)
          /\ NoBreakpointAtBoundaries(t, n - 1)

\* C31: run_until_breakpoint(limit) always returns; it returns true only in
\* a state where the phase is A1 and pc equals a registered breakpoint, and
\* it returns false only after exactly limit machine cycles have elapsed with
\* no A1 boundary at which pc matched a breakpoint; with 16 NOPs and a
\* breakpoint at 4 it returns true with pc = 4.
C31_RunUntilBreakpoint ==
    [][sys_op' = "run_until_breakpoint" =>
         /\ sys_call' # None
         /\ sys_call'[1].hit =>
                sys'.cycle.phase = "A1" /\ AtBreakpoint(sys')
         /\ ~sys_call'[1].hit =>
                /\ sys'.total_cycles - sys.total_cycles = sys_call'[1].max_cycles
                /\ NoBreakpointAtBoundaries(sys, sys_call'[1].max_cycles)
         /\ (/\ sys.rom[1].rom = <<>> /\ sys.breakpoints = <<4>>
             /\ sys.cpu.registers.pc = 0 /\ sys.cycle.phase = "A1"
             /\ sys_call'[1].max_cycles >= 4)
            => sys_call'[1].hit /\ sys'.cpu.registers.pc = 4
      ]_vars

\* 16 NOPs, a breakpoint at 4: the run from pc = 0 has stopped at pc = 4
C31_Witness ==
    /\ sys_op = "run_until_breakpoint"
    /\ sys_call = Some([max_cycles |-> 5, hit |-> TRUE])
    /\ sys.rom[1].rom = <<>>
    /\ sys.breakpoints = <<4>>
    /\ sys.cpu.registers.pc = 4
    /\ sys.total_cycles = 4

\* C32: reset(), called in any reachable state, in the middle of a cycle
\* too, leaves every ROM byte unchanged and puts the machine in its initial
\* state: pc = 0, accumulator = 0, carry = 0, all index registers and the
\* stack 0, every RAM nibble and status nibble 0, the bus undriven, SYNC low,
\* phase A1 and machine state Fetch1.
C32_ResetRestores ==
    [][sys_op' = "reset" =>
         /\ \A i \in 1 .. Len(sys.rom) :
                \A a \in 0 .. 255 : RomByte(sys'.rom[i], a) = RomByte(sys.rom[i], a)
         /\ Len(sys'.rom) = Len(sys.rom)
         /\ pc(sys'.cpu.registers) = 0
         /\ accumulator(sys'.cpu.alu) = 0
         /\ CarryBit(sys'.cpu.alu) = 0
         /\ \A r \in 0 .. 15 : get_r(sys'.cpu.registers, r) = 0
         /\ \A k \in 0 .. 2 : sys'.cpu.registers.stack[k] = 0
         /\ sys'.cpu.registers.sp = 0
         /\ Len(sys'.ram) = Len(sys.ram)
         /\ \A i \in 1 .. Len(sys'.ram) :
                /\ \A reg \in 0 .. 3, ch \in 0 .. 15 :
                       I4002ReadDirect(sys'.ram[i], reg, ch) = 0
                /\ \A reg \in 0 .. 3 : sys'.ram[i].status[reg] = 0
         /\ sys'.bus = AllLines("Z")
         /\ sys'.control.sync = "Low"
         /\ sys'.cycle.phase = "A1" /\ sys'.cycle.state = "Fetch1"
         /\ sys'.cpu.cycle.phase = "A1" /\ sys'.cpu.cycle.state = "Fetch1"
      ]_vars

\* a system with a loaded ROM that ran for some cycles has been reset
C32_Witness ==
    /\ sys_op = "reset"
    /\ sys.total_cycles > 0
    /\ sys.rom[1].rom # <<>>
    /\ pc(sys.cpu.registers) = 0
    /\ sys.cycle.phase = "A1"

\* C33: reset() zeroes the cycle counters: immediately after reset(), called
\* after any number of executed machine cycles, cycles() returns 0.
C33_ResetZeroesCycles == sys_op = "reset" => sys.total_cycles = 0

\* C34: load_rom_at(address, data) clips to capacity: byte data[i] is written
\* only to ROM address address + i; bytes whose address + i lies above 0xFFF
\* or on a chip that is not installed are discarded, and no ROM byte at any
\* other address is modified.
C34_LoadRomAtClips ==
    [][sys_op' = "load_rom_at" =>
         \A c \in 1 .. Len(sys.rom) : \A a \in 0 .. 255 :
            \A i \in {256 * sys.rom[c].chip_id + a - sys_call'[1].address} :
               RomByte(sys'.rom[c], a) =
                  IF i >= 0 /\ i < Len(sys_call'[1].data)
                  THEN sys_call'[1].data[i + 1]
                  ELSE RomByte(sys.rom[c], a)
      ]_vars

(***************************************************************************)
(* Claims about combinational netlists                                     *)
(***************************************************************************)
\* the level gate g computes from the current levels of its inputs
Computed(g) ==
    evaluate(gates[g], [k \in 1 .. Len(gates[g].inputs) |->
                           get_signal(signals, gates[g].inputs[k])])

\* C36: For an acyclic netlist of combinational gates with positive delays
\* that starts in a consistent state, after any sequence of input stimuli,
\* an input that changes twice within less than one gate delay included, once
\* the event queue is empty every gate's output equals evaluate() of the
\* current levels of its inputs.
C36_SteadyState ==
    (events = <<>> /\ run = Idle) =>
        \A g \in 1 .. Len(gates) : get_signal(signals, gates[g].output) = Computed(g)

(***************************************************************************)
(* Claims about the RAM chips of the system                                *)
(***************************************************************************)
\* the instructions that write to a 4002: main memory, port, status
RamWriteOps == {"Wrm", "Wmp", "Wr0", "Wr1", "Wr2", "Wr3"}

\* the RAM chips whose main memory step() has changed
Stored == {i \in 1 .. Len(sys.ram) : sys'.ram[i].ram # sys.ram[i].ram}

\* C37: The main RAM of a 4002 changes only in the X2 phase of a machine
\* cycle whose instruction is a RAM write, or through back-door writes and
\* reset: executing any instruction that is not a RAM write, from any ROM
\* page, leaves every RAM nibble of every chip unchanged.
C37_RamFrame ==
    [][(sys_op' = "step" /\ Stored # {}) =>
         /\ sys.cycle.phase = "X2"
         /\ \E op \in RamWriteOps :
                sys.cpu.decoder.instruction = Some(Instr(op, 0, 0))
      ]_vars

\* the RAM chips that drive an undriven bus in phase X3
Driving ==
    {i \in 1 .. Len(sys.ram) :
        I4002TickBus(sys.ram[i], "X3", DataBusNew, sys.control).bus # DataBusNew}

\* C38: In the standard and the maximal system, in any X2 phase at most one
\* 4002 stores the bus value and in any X3 phase at most one 4002 drives the
\* bus; the other chips of the same bank do not respond.
C38_OneChipResponds ==
    [][sys_op' = "step" =>
         /\ sys.cycle.phase = "X2" => Cardinality(Stored) <= 1
         /\ sys.cycle.phase = "X3" => Cardinality(Driving) <= 1
      ]_vars

(***************************************************************************)
(* Claims about CycleState driven through its methods                      *)
(***************************************************************************)
\* C39: In every state reachable through advance, set_two_cycle, halt,
\* resume, interrupt_ack and reset, second_cycle is true only while the
\* machine state is Fetch2; a halt() followed by resume() in the middle of a
\* two-byte instruction returns to Fetch1 with two_cycle and second_cycle
\* both clear.
C39_SecondCycleOnlyInFetch2 ==
    [][/\ second_cycle' => state' = "Fetch2"
       /\ (cycle_op' = "resume" /\ state = "Halted") =>
              state' = "Fetch1" /\ ~two_cycle' /\ ~second_cycle'
      ]_vars

(***************************************************************************)
(* Claims about the clock in step mode                                     *)
(***************************************************************************)
\* C40: For every ClockConfig, those with a zero pulse width or a zero
\* delay between the phases included, repeated tick() calls never get stuck
\* on one edge: the edges follow each other so that every fourth tick
\* returns Phi2Falling, and the cycle counter eventually increases.
C40_NeverStuck ==
    /\ [][Tick => clock_edge' = NextEdge(clock_edge)]_vars
    /\ <>(clock.cycle_count > 0)

=============================================================================
